---- MODULE Spec2Model ----
(***************************************************************************)
(* PrivaMed: consent-based access control for off-chain medical records.   *)
(*                                                                         *)
(* The module models the two ledger contracts of the repository,           *)
(*   - PrivaMed              (contracts/PrivaMed.sol)                      *)
(*   - AccessControlRegistry (the Ownable registry variant)                *)
(* as state machines over their storage.  One behaviour exercises one      *)
(* deployed contract: the constructor that ran decides which of `admin`    *)
(* (PrivaMed) and `owner` (AccessControlRegistry) is set.                  *)
(*                                                                         *)
(* A transaction either commits (result = "ok", logs = the events it       *)
(* emitted) or reverts (result = the revert reason, logs empty).           *)
(* keccak256 is modelled as an injective tuple of its packed arguments.    *)
(***************************************************************************)
EXTENDS Integers, Sequences, FiniteSets, TLC

(***************************************************************************)
(* Bounds of the model                                                     *)
(***************************************************************************)
MaxTime == 3        \* block.timestamp ranges over 1..MaxTime
MaxRecords == 1     \* records created per deployed contract
MaxRequests == 2    \* entries of the requests array of PrivaMed
MaxPending == 1     \* entries of accessRequests of AccessControlRegistry
MaxEvents == 1      \* access events stored by AccessControlRegistry
MaxPosts == 2       \* POST /api/records handlers in flight at once
MaxRaceRecords == 2 \* records created on-chain by interleaved handlers
MaxLog == 3         \* access events stored when the audit log is studied
UintMax == 5        \* scaled-down 2^256 - 1: checked arithmetic panics above it

(***************************************************************************)
(* Values                                                                  *)
(***************************************************************************)
ZeroAddr == "0x0"                       \* address(0)
Deployer == "admin"                     \* msg.sender of the constructor
Addr == {"admin", "alice", "bob"}       \* externally owned accounts
AddrArg == Addr \cup {ZeroAddr}         \* address-typed arguments

Role == {"None", "Patient", "Provider", "Auditor"}   \* enum Role

Cids == {"QmA"}
ZeroScope == "0x00"                     \* bytes32(0)
Scopes == {"NOTES"}
ValidUntils == {0, MaxTime - 1}
Durations == {1, UintMax}
Justifications == {"j1"}
Reasons == {"treatment"}
Actions == {"READ"}
LogActors == {"bob"}

\* registerUser(userAddr, role) arguments the administrator is asked to submit
RegArgs == {<<"alice", "Patient">>, <<"alice", "Auditor">>, <<"bob", "Provider">>,
            <<"bob", "Patient">>, <<ZeroAddr, "Patient">>, <<"alice", "None">>}

\* keccak256(abi.encodePacked(msg.sender, cid, block.timestamp))
RecordIdOf(sender, cid, ts) == <<sender, cid, ts>>
UnknownId == <<ZeroAddr, "", 0>>          \* a bytes32 no addRecord produces

(***************************************************************************)
(* A Solidity mapping: every key holds the zero value until it is written. *)
(* Only the keys holding a non-zero value are kept.                        *)
(***************************************************************************)
EmptyMap == [k \in {} |-> 0]
Get(m, k, zero) == IF k \in DOMAIN m THEN m[k] ELSE zero
Put(m, k, v, zero) ==
    IF v = zero THEN [x \in DOMAIN m \ {k} |-> m[x]]
    ELSE [x \in DOMAIN m \cup {k} |-> IF x = k THEN v ELSE m[x]]

NoUser == [role |-> "None", exists |-> FALSE]
NoRecord == [owner |-> ZeroAddr, cid |-> "", createdAt |-> 0, exists |-> FALSE]
NoGrant == [active |-> FALSE, validUntil |-> 0, scope |-> ZeroScope]

(***************************************************************************)
(* Values of AccessControlRegistry                                         *)
(***************************************************************************)
ROLE_PATIENT == "PATIENT"               \* keccak256("PATIENT")
ROLE_PHYSICIAN == "PHYSICIAN"
ROLE_RESPONDER == "RESPONDER"
ROLE_AUDITOR == "AUDITOR"
ZeroRole == "0x00"                      \* bytes32(0), the role of an absent user
DefaultScope == "DEFAULT"               \* bytes32("DEFAULT")
OneDay == 1                             \* 1 days, in the unit of the clock

ZeroId == "0x00"                        \* bytes32(0)
AcrRecordIds == {ZeroId, "r1"}          \* recordId is an argument of addRecord
Pems == {"pem"}

\* registerUser(wallet, role, ...) arguments the owner is asked to submit
AcrRegArgs == {<<"alice", ROLE_PATIENT>>, <<"admin", ROLE_AUDITOR>>,
               <<"bob", ROLE_RESPONDER>>, <<ZeroAddr, ROLE_PHYSICIAN>>}

\* keccak256(abi.encodePacked(recordId, grantee))
_grantKey(recordId, grantee) == <<recordId, grantee>>

\* keccak256(abi.encodePacked(msg.sender, recordId, reason, block.timestamp))
RequestIdOf(sender, recordId, reason, ts) == <<sender, recordId, reason, ts>>
UnknownRequest == <<ZeroAddr, ZeroId, "", 0>>   \* a bytes32 no requestAccess produces

NoAcrUser == [wallet |-> ZeroAddr, role |-> ZeroRole, publicKeyPEM |-> "", exists |-> FALSE]
NoPointer == [recordId |-> ZeroId, ipfsCid |-> "", owner |-> ZeroAddr, timestamp |-> 0]
NoAcrGrant == [exists |-> FALSE, granter |-> ZeroAddr, grantee |-> ZeroAddr,
               recordId |-> ZeroId, validUntil |-> 0, scope |-> ZeroScope]
NoAcrRequest == [requester |-> ZeroAddr, recordId |-> ZeroId, reason |-> "",
                 processed |-> FALSE, approved |-> FALSE]

VARIABLES
    now,            \* block.timestamp of the block being built
    admin,          \* PrivaMed.admin (ZeroAddr: PrivaMed not deployed)
    users,          \* PrivaMed.users
    records,        \* PrivaMed.records
    grants,         \* PrivaMed.grants
    requests,       \* PrivaMed.requests
    owner,          \* Ownable owner of AccessControlRegistry (ZeroAddr: not deployed)
    acr_users,      \* AccessControlRegistry.users
    acr_records,    \* AccessControlRegistry.records
    accessGrants,   \* AccessControlRegistry.accessGrants
    accessRequests, \* AccessControlRegistry.accessRequests
    accessEvents,   \* AccessControlRegistry.accessEvents
    result,         \* outcome of the last transaction: "ok" or the revert reason
    logs,           \* events emitted by the last transaction (its receipt)
    localRecords,   \* gateway: in-memory store recordId -> metadata
    ipfs,           \* IPFS: cid -> stored JSON object
    posts           \* gateway: POST /api/records handlers suspended at an await

pmStore == <<admin, users, records, grants, requests>>

acrStore == <<owner, acr_users, acr_records, accessGrants, accessRequests, accessEvents>>

gwStore == <<localRecords, ipfs, posts>>

vars == <<now, pmStore, acrStore, result, logs, gwStore>>

(***************************************************************************)
(* Events of PrivaMed                                                      *)
(***************************************************************************)
UserRegistered(user, role) ==
    [event |-> "UserRegistered", user |-> user, role |-> role]
RecordAdded(recordId, ownr, cid) ==
    [event |-> "RecordAdded", recordId |-> recordId, owner |-> ownr, cid |-> cid]
AccessGranted(recordId, grantee, validUntil, scope) ==
    [event |-> "AccessGranted", recordId |-> recordId, grantee |-> grantee,
     validUntil |-> validUntil, scope |-> scope]
AccessRevoked(recordId, grantee) ==
    [event |-> "AccessRevoked", recordId |-> recordId, grantee |-> grantee]
AccessRequested(requestId, recordId, requester, reason) ==
    [event |-> "AccessRequested", requestId |-> requestId, recordId |-> recordId,
     requester |-> requester, reason |-> reason]
AccessEvent(recordId, actor, success, action, timestamp) ==
    [event |-> "AccessEvent", recordId |-> recordId, actor |-> actor,
     success |-> success, action |-> action, timestamp |-> timestamp]
EmergencyAccess(recordId, actor, justificationHash, validUntil, timestamp) ==
    [event |-> "EmergencyAccess", recordId |-> recordId, actor |-> actor,
     justificationHash |-> justificationHash, validUntil |-> validUntil,
     timestamp |-> timestamp]

(***************************************************************************)
(* Transaction outcomes                                                    *)
(***************************************************************************)
\* a revert rolls the storage back and leaves an empty receipt
Revert(reason) ==
    /\ result' = reason
    /\ logs' = <<>>
    /\ UNCHANGED <<pmStore, acrStore, gwStore>>

Commit(emitted) ==
    /\ result' = "ok"
    /\ logs' = emitted
    /\ UNCHANGED gwStore

(***************************************************************************)
(* PrivaMed                                                                *)
(***************************************************************************)
PrivaMedDeployed == admin # ZeroAddr

\* storage reads: users[a], records[id], grants[id][a]
user(a) == Get(users, a, NoUser)
record(recordId) == Get(records, recordId, NoRecord)
grant(recordId, a) == Get(grants, <<recordId, a>>, NoGrant)

\* registerUser without the onlyAdmin modifier
registerUser_noAdminCheck(sender, userAddr, role) ==
    /\ PrivaMedDeployed
    /\ IF userAddr = ZeroAddr THEN Revert("zero address")
       ELSE IF role = "None" THEN Revert("invalid role")
       ELSE /\ users' = Put(users, userAddr, [role |-> role, exists |-> TRUE], NoUser)
            /\ Commit(<<UserRegistered(userAddr, role)>>)
            /\ UNCHANGED <<admin, records, grants, requests, acrStore>>
    /\ UNCHANGED now

registerUser(sender, userAddr, role) ==
    /\ PrivaMedDeployed
    /\ IF sender # admin THEN Revert("Admin only")
       ELSE IF userAddr = ZeroAddr THEN Revert("zero address")
       ELSE IF role = "None" THEN Revert("invalid role")
       ELSE /\ users' = Put(users, userAddr, [role |-> role, exists |-> TRUE], NoUser)
            /\ Commit(<<UserRegistered(userAddr, role)>>)
            /\ UNCHANGED <<admin, records, grants, requests, acrStore>>
    /\ UNCHANGED now

\* addRecord that records the contract admin as the owner of the record
addRecord_ownerIsAdmin(sender, cid) ==
    /\ PrivaMedDeployed
    /\ LET recordId == RecordIdOf(sender, cid, now) IN
       IF ~user(sender).exists THEN Revert("User not registered")
       ELSE IF ~(user(sender).role = "Patient" \/ user(sender).role = "Auditor")
            THEN Revert("Only patient or auditor may add records")
       ELSE IF record(recordId).exists THEN Revert("RecordId already exists")
       ELSE /\ Cardinality(DOMAIN records) < MaxRecords
            /\ records' = Put(records, recordId,
                              [owner |-> admin, cid |-> cid,
                               createdAt |-> now, exists |-> TRUE], NoRecord)
            /\ Commit(<<RecordAdded(recordId, sender, cid)>>)
            /\ UNCHANGED <<admin, users, grants, requests, acrStore>>
    /\ UNCHANGED now

addRecord(sender, cid) ==
    /\ PrivaMedDeployed
    /\ LET recordId == RecordIdOf(sender, cid, now) IN
       IF ~user(sender).exists THEN Revert("User not registered")
       ELSE IF ~(user(sender).role = "Patient" \/ user(sender).role = "Auditor")
            THEN Revert("Only patient or auditor may add records")
       ELSE IF record(recordId).exists THEN Revert("RecordId already exists")
       ELSE /\ Cardinality(DOMAIN records) < MaxRecords
            /\ records' = Put(records, recordId,
                              [owner |-> sender, cid |-> cid,
                               createdAt |-> now, exists |-> TRUE], NoRecord)
            /\ Commit(<<RecordAdded(recordId, sender, cid)>>)
            /\ UNCHANGED <<admin, users, grants, requests, acrStore>>
    /\ UNCHANGED now

\* grantAccess that asks for a registered caller instead of the owner
grantAccess_anyRegistered(sender, recordId, grantee, validUntil, scope) ==
    /\ PrivaMedDeployed
    /\ IF ~record(recordId).exists THEN Revert("Record not found")
       ELSE IF ~user(sender).exists THEN Revert("User not registered")
       ELSE IF ~(user(grantee).exists /\ user(grantee).role = "Provider")
            THEN Revert("Grantee must be a registered provider")
       ELSE IF grantee = ZeroAddr THEN Revert("Not a valid grantee")
       ELSE /\ grants' = Put(grants, <<recordId, grantee>>,
                             [active |-> TRUE, validUntil |-> validUntil,
                              scope |-> scope], NoGrant)
            /\ Commit(<<AccessGranted(recordId, grantee, validUntil, scope)>>)
            /\ UNCHANGED <<admin, users, records, requests, acrStore>>
    /\ UNCHANGED now

\* grantAccess that never shortens the expiry already stored for the pair
grantAccess_keepsLaterExpiry(sender, recordId, grantee, validUntil, scope) ==
    /\ PrivaMedDeployed
    /\ IF ~record(recordId).exists THEN Revert("Record not found")
       ELSE IF sender # record(recordId).owner THEN Revert("Only owner can grant")
       ELSE IF ~(user(grantee).exists /\ user(grantee).role = "Provider")
            THEN Revert("Grantee must be a registered provider")
       ELSE IF grantee = ZeroAddr THEN Revert("Not a valid grantee")
       ELSE /\ grants' = Put(grants, <<recordId, grantee>>,
                             [active |-> TRUE,
                              validUntil |->
                                  IF grant(recordId, grantee).validUntil > validUntil
                                  THEN grant(recordId, grantee).validUntil
                                  ELSE validUntil,
                              scope |-> scope], NoGrant)
            /\ Commit(<<AccessGranted(recordId, grantee, validUntil, scope)>>)
            /\ UNCHANGED <<admin, users, records, requests, acrStore>>
    /\ UNCHANGED now

\* grantAccess that checks the owner before the existence of the record
grantAccess_ownerCheckFirst(sender, recordId, grantee, validUntil, scope) ==
    /\ PrivaMedDeployed
    /\ IF sender # record(recordId).owner THEN Revert("Only owner can grant")
       ELSE IF ~record(recordId).exists THEN Revert("Record not found")
       ELSE IF ~(user(grantee).exists /\ user(grantee).role = "Provider")
            THEN Revert("Grantee must be a registered provider")
       ELSE IF grantee = ZeroAddr THEN Revert("Not a valid grantee")
       ELSE /\ grants' = Put(grants, <<recordId, grantee>>,
                             [active |-> TRUE, validUntil |-> validUntil,
                              scope |-> scope], NoGrant)
            /\ Commit(<<AccessGranted(recordId, grantee, validUntil, scope)>>)
            /\ UNCHANGED <<admin, users, records, requests, acrStore>>
    /\ UNCHANGED now

\* grantAccess that the contract admin may call as well as the owner
grantAccess_adminToo(sender, recordId, grantee, validUntil, scope) ==
    /\ PrivaMedDeployed
    /\ IF ~record(recordId).exists THEN Revert("Record not found")
       ELSE IF ~(sender = record(recordId).owner \/ sender = admin)
            THEN Revert("Only owner can grant")
       ELSE IF ~(user(grantee).exists /\ user(grantee).role = "Provider")
            THEN Revert("Grantee must be a registered provider")
       ELSE IF grantee = ZeroAddr THEN Revert("Not a valid grantee")
       ELSE /\ grants' = Put(grants, <<recordId, grantee>>,
                             [active |-> TRUE, validUntil |-> validUntil,
                              scope |-> scope], NoGrant)
            /\ Commit(<<AccessGranted(recordId, grantee, validUntil, scope)>>)
            /\ UNCHANGED <<admin, users, records, requests, acrStore>>
    /\ UNCHANGED now

\* grantAccess that marks the grantee's requests for the record fulfilled
grantAccess_fulfilsRequests(sender, recordId, grantee, validUntil, scope) ==
    /\ PrivaMedDeployed
    /\ IF ~record(recordId).exists THEN Revert("Record not found")
       ELSE IF sender # record(recordId).owner THEN Revert("Only owner can grant")
       ELSE IF ~(user(grantee).exists /\ user(grantee).role = "Provider")
            THEN Revert("Grantee must be a registered provider")
       ELSE IF grantee = ZeroAddr THEN Revert("Not a valid grantee")
       ELSE /\ grants' = Put(grants, <<recordId, grantee>>,
                             [active |-> TRUE, validUntil |-> validUntil,
                              scope |-> scope], NoGrant)
            /\ requests' = [i \in DOMAIN requests |->
                               IF /\ requests[i].recordId = recordId
                                  /\ requests[i].requester = grantee
                               THEN [requests[i] EXCEPT !.fulfilled = TRUE]
                               ELSE requests[i]]
            /\ Commit(<<AccessGranted(recordId, grantee, validUntil, scope)>>)
            /\ UNCHANGED <<admin, users, records, acrStore>>
    /\ UNCHANGED now

grantAccess(sender, recordId, grantee, validUntil, scope) ==
    /\ PrivaMedDeployed
    /\ IF ~record(recordId).exists THEN Revert("Record not found")
       ELSE IF sender # record(recordId).owner THEN Revert("Only owner can grant")
       ELSE IF ~(user(grantee).exists /\ user(grantee).role = "Provider")
            THEN Revert("Grantee must be a registered provider")
       ELSE IF grantee = ZeroAddr THEN Revert("Not a valid grantee")
       ELSE /\ grants' = Put(grants, <<recordId, grantee>>,
                             [active |-> TRUE, validUntil |-> validUntil,
                              scope |-> scope], NoGrant)
            /\ Commit(<<AccessGranted(recordId, grantee, validUntil, scope)>>)
            /\ UNCHANGED <<admin, users, records, requests, acrStore>>
    /\ UNCHANGED now

\* revokeAccess that clears the expiry instead of the active flag
revokeAccess_clearsExpiry(sender, recordId, grantee) ==
    /\ PrivaMedDeployed
    /\ LET g == grant(recordId, grantee) IN
       IF ~record(recordId).exists THEN Revert("Record not found")
       ELSE IF sender # record(recordId).owner THEN Revert("Only owner can revoke")
       ELSE IF ~g.active THEN Revert("Grant not active")
       ELSE /\ grants' = Put(grants, <<recordId, grantee>>,
                             [g EXCEPT !.validUntil = 0], NoGrant)
            /\ Commit(<<AccessRevoked(recordId, grantee)>>)
            /\ UNCHANGED <<admin, users, records, requests, acrStore>>
    /\ UNCHANGED now

\* revokeAccess without require(g.active)
revokeAccess_noActiveCheck(sender, recordId, grantee) ==
    /\ PrivaMedDeployed
    /\ LET g == grant(recordId, grantee) IN
       IF ~record(recordId).exists THEN Revert("Record not found")
       ELSE IF sender # record(recordId).owner THEN Revert("Only owner can revoke")
       ELSE /\ grants' = Put(grants, <<recordId, grantee>>,
                             [g EXCEPT !.active = FALSE], NoGrant)
            /\ Commit(<<AccessRevoked(recordId, grantee)>>)
            /\ UNCHANGED <<admin, users, records, requests, acrStore>>
    /\ UNCHANGED now

revokeAccess(sender, recordId, grantee) ==
    /\ PrivaMedDeployed
    /\ LET g == grant(recordId, grantee) IN
       IF ~record(recordId).exists THEN Revert("Record not found")
       ELSE IF sender # record(recordId).owner THEN Revert("Only owner can revoke")
       ELSE IF ~g.active THEN Revert("Grant not active")
       ELSE /\ grants' = Put(grants, <<recordId, grantee>>,
                             [g EXCEPT !.active = FALSE], NoGrant)
            /\ Commit(<<AccessRevoked(recordId, grantee)>>)
            /\ UNCHANGED <<admin, users, records, requests, acrStore>>
    /\ UNCHANGED now

\* requestAccess that emits the length of the array after the push as the id
requestAccess_idAfterPush(sender, recordId, reason) ==
    /\ PrivaMedDeployed
    /\ IF ~record(recordId).exists THEN Revert("Record not found")
       ELSE IF ~user(sender).exists THEN Revert("User not registered")
       ELSE IF user(sender).role # "Provider" THEN Revert("Only provider may request")
       ELSE LET req == [requester |-> sender, recordId |-> recordId,
                        reason |-> reason, createdAt |-> now, fulfilled |-> FALSE]
                id == Len(requests) + 1
            IN /\ Len(requests) < MaxRequests
               /\ requests' = Append(requests, req)
               /\ Commit(<<AccessRequested(id, recordId, sender, reason)>>)
               /\ UNCHANGED <<admin, users, records, grants, acrStore>>
    /\ UNCHANGED now

requestAccess(sender, recordId, reason) ==
    /\ PrivaMedDeployed
    /\ IF ~record(recordId).exists THEN Revert("Record not found")
       ELSE IF ~user(sender).exists THEN Revert("User not registered")
       ELSE IF user(sender).role # "Provider" THEN Revert("Only provider may request")
       ELSE LET req == [requester |-> sender, recordId |-> recordId,
                        reason |-> reason, createdAt |-> now, fulfilled |-> FALSE]
                id == Len(requests)     \* requests.length - 1 after the push
            IN /\ Len(requests) < MaxRequests
               /\ requests' = Append(requests, req)
               /\ Commit(<<AccessRequested(id, recordId, sender, reason)>>)
               /\ UNCHANGED <<admin, users, records, grants, acrStore>>
    /\ UNCHANGED now

\* emergencyAccess that stores the duration as the expiry
emergencyAccess_durationAsExpiry(sender, recordId, justificationHash, validForSeconds) ==
    /\ PrivaMedDeployed
    /\ IF ~record(recordId).exists THEN Revert("Record not found")
       ELSE IF ~user(sender).exists THEN Revert("User not registered")
       ELSE IF user(sender).role # "Provider"
            THEN Revert("Only provider may use emergency")
       ELSE IF now + validForSeconds > UintMax THEN Revert("Panic(0x11)")
       ELSE LET validUntil == validForSeconds IN
            /\ grants' = Put(grants, <<recordId, sender>>,
                             [active |-> TRUE, validUntil |-> validUntil,
                              scope |-> ZeroScope], NoGrant)
            /\ Commit(<<EmergencyAccess(recordId, sender, justificationHash,
                                        validUntil, now)>>)
            /\ UNCHANGED <<admin, users, records, requests, acrStore>>
    /\ UNCHANGED now

\* emergencyAccess that reports the bypass as an ordinary grant
emergencyAccess_grantEvent(sender, recordId, justificationHash, validForSeconds) ==
    /\ PrivaMedDeployed
    /\ IF ~record(recordId).exists THEN Revert("Record not found")
       ELSE IF ~user(sender).exists THEN Revert("User not registered")
       ELSE IF user(sender).role # "Provider"
            THEN Revert("Only provider may use emergency")
       ELSE IF now + validForSeconds > UintMax THEN Revert("Panic(0x11)")
       ELSE LET validUntil == now + validForSeconds IN
            /\ grants' = Put(grants, <<recordId, sender>>,
                             [active |-> TRUE, validUntil |-> validUntil,
                              scope |-> ZeroScope], NoGrant)
            /\ Commit(<<AccessGranted(recordId, sender, validUntil, ZeroScope)>>)
            /\ UNCHANGED <<admin, users, records, requests, acrStore>>
    /\ UNCHANGED now

\* emergencyAccess that leaves a grant without expiry as it is
emergencyAccess_keepsOpenGrant(sender, recordId, justificationHash, validForSeconds) ==
    /\ PrivaMedDeployed
    /\ IF ~record(recordId).exists THEN Revert("Record not found")
       ELSE IF ~user(sender).exists THEN Revert("User not registered")
       ELSE IF user(sender).role # "Provider"
            THEN Revert("Only provider may use emergency")
       ELSE IF now + validForSeconds > UintMax THEN Revert("Panic(0x11)")
       ELSE LET validUntil == now + validForSeconds
                g == grant(recordId, sender)
            IN
            /\ grants' = IF g.active /\ g.validUntil = 0 THEN grants
                         ELSE Put(grants, <<recordId, sender>>,
                                  [active |-> TRUE, validUntil |-> validUntil,
                                   scope |-> ZeroScope], NoGrant)
            /\ Commit(<<EmergencyAccess(recordId, sender, justificationHash,
                                        validUntil, now)>>)
            /\ UNCHANGED <<admin, users, records, requests, acrStore>>
    /\ UNCHANGED now

emergencyAccess(sender, recordId, justificationHash, validForSeconds) ==
    /\ PrivaMedDeployed
    /\ IF ~record(recordId).exists THEN Revert("Record not found")
       ELSE IF ~user(sender).exists THEN Revert("User not registered")
       ELSE IF user(sender).role # "Provider"
            THEN Revert("Only provider may use emergency")
       ELSE IF now + validForSeconds > UintMax THEN Revert("Panic(0x11)")
       ELSE LET validUntil == now + validForSeconds IN
            /\ grants' = Put(grants, <<recordId, sender>>,
                             [active |-> TRUE, validUntil |-> validUntil,
                              scope |-> ZeroScope], NoGrant)
            /\ Commit(<<EmergencyAccess(recordId, sender, justificationHash,
                                        validUntil, now)>>)
            /\ UNCHANGED <<admin, users, records, requests, acrStore>>
    /\ UNCHANGED now

\* isAuthorized with a strict comparison against the expiry
isAuthorized_strictExpiry(recordId, actor) ==
    IF ~record(recordId).exists THEN "Record not found"
    ELSE LET g == grant(recordId, actor) IN
         IF ~g.active THEN "false"
         ELSE IF g.validUntil = 0 THEN "true"
         ELSE IF now < g.validUntil THEN "true" ELSE "false"

\* view function: the value returned to the caller, or the revert reason
isAuthorized(recordId, actor) ==
    IF ~record(recordId).exists THEN "Record not found"
    ELSE LET g == grant(recordId, actor) IN
         IF ~g.active THEN "false"
         ELSE IF g.validUntil = 0 THEN "true"
         ELSE IF now <= g.validUntil THEN "true" ELSE "false"

\* logAccessEvent restricted to registered callers (onlyRegistered)
logAccessEvent_onlyRegistered(sender, recordId, actor, success, action) ==
    /\ PrivaMedDeployed
    /\ IF ~record(recordId).exists THEN Revert("Record not found")
       ELSE IF ~user(sender).exists THEN Revert("Not registered")
       ELSE /\ Commit(<<AccessEvent(recordId, actor, success, action, now)>>)
            /\ UNCHANGED <<pmStore, acrStore>>
    /\ UNCHANGED now

logAccessEvent(sender, recordId, actor, success, action) ==
    /\ PrivaMedDeployed
    /\ IF ~record(recordId).exists THEN Revert("Record not found")
       ELSE /\ Commit(<<AccessEvent(recordId, actor, success, action, now)>>)
            /\ UNCHANGED <<pmStore, acrStore>>
    /\ UNCHANGED now

\* view function
getRequestCount == Len(requests)

\* view function: the request returned to the caller, or the revert reason;
\* requestId is the 0-based index into the requests array
getRequest(requestId) ==
    IF ~(requestId < Len(requests)) THEN "invalid id"
    ELSE requests[requestId + 1]

\* getRecordCID that answers only while some grant on the record is active
getRecordCID_needsGrant(recordId) ==
    IF ~record(recordId).exists THEN "Record not found"
    ELSE IF ~(\E a \in Addr : grant(recordId, a).active) THEN "Not authorized"
    ELSE record(recordId).cid

\* view function: the cid returned to the caller, or the revert reason
getRecordCID(recordId) ==
    IF ~record(recordId).exists THEN "Record not found"
    ELSE record(recordId).cid

(***************************************************************************)
(* Events of AccessControlRegistry                                         *)
(***************************************************************************)
acr_UserRegistered(wallet, role, publicKeyPEM) ==
    [event |-> "UserRegistered", wallet |-> wallet, role |-> role,
     publicKeyPEM |-> publicKeyPEM]
acr_RecordAdded(recordId, ipfsCid, patient) ==
    [event |-> "RecordAdded", recordId |-> recordId, ipfsCid |-> ipfsCid,
     patient |-> patient]
acr_AccessGranted(granter, grantee, recordId, validUntil, scope) ==
    [event |-> "AccessGranted", granter |-> granter, grantee |-> grantee,
     recordId |-> recordId, validUntil |-> validUntil, scope |-> scope]
acr_AccessRevoked(granter, grantee, recordId) ==
    [event |-> "AccessRevoked", granter |-> granter, grantee |-> grantee,
     recordId |-> recordId]
AccessEventLogged(actor, recordId, success, timestamp, action) ==
    [event |-> "AccessEventLogged", actor |-> actor, recordId |-> recordId,
     success |-> success, timestamp |-> timestamp, action |-> action]
acr_AccessRequested(requestId, requester, recordId, reason) ==
    [event |-> "AccessRequested", requestId |-> requestId, requester |-> requester,
     recordId |-> recordId, reason |-> reason]
AccessRequestApproved(requestId) ==
    [event |-> "AccessRequestApproved", requestId |-> requestId]
AccessRequestDenied(requestId) ==
    [event |-> "AccessRequestDenied", requestId |-> requestId]
acr_EmergencyAccess(actor, recordId, justificationHash, timestamp) ==
    [event |-> "EmergencyAccess", actor |-> actor, recordId |-> recordId,
     justificationHash |-> justificationHash, timestamp |-> timestamp]

(***************************************************************************)
(* AccessControlRegistry                                                   *)
(***************************************************************************)
RegistryDeployed == owner # ZeroAddr

\* storage reads
acr_user(a) == Get(acr_users, a, NoAcrUser)
acr_record(recordId) == Get(acr_records, recordId, NoPointer)
accessGrant(key) == Get(accessGrants, key, NoAcrGrant)
accessRequest(requestId) == Get(accessRequests, requestId, NoAcrRequest)
accessEventsOf(recordId) == Get(accessEvents, recordId, <<>>)

onlyExistingUser(sender) == acr_user(sender).exists

onlyRole(sender, role) == acr_user(sender).exists /\ acr_user(sender).role = role

acr_registerUser(sender, wallet, role, publicKeyPEM) ==
    /\ RegistryDeployed
    /\ IF sender # owner THEN Revert("OwnableUnauthorizedAccount")
       ELSE IF wallet = ZeroAddr THEN Revert("Invalid address")
       ELSE IF acr_user(wallet).exists THEN Revert("User exists")
       ELSE /\ acr_users' = Put(acr_users, wallet,
                                [wallet |-> wallet, role |-> role,
                                 publicKeyPEM |-> publicKeyPEM, exists |-> TRUE],
                                NoAcrUser)
            /\ Commit(<<acr_UserRegistered(wallet, role, publicKeyPEM)>>)
            /\ UNCHANGED <<owner, acr_records, accessGrants, accessRequests,
                           accessEvents, pmStore>>
    /\ UNCHANGED now

acr_addRecord(sender, recordId, ipfsCid, patient) ==
    /\ RegistryDeployed
    /\ IF ~onlyExistingUser(sender) THEN Revert("User not registered")
       ELSE IF ~(acr_user(patient).exists /\ acr_user(patient).role = ROLE_PATIENT)
            THEN Revert("Invalid patient")
       ELSE IF acr_record(recordId).timestamp # 0 THEN Revert("Record exists")
       ELSE /\ Cardinality(DOMAIN acr_records) < MaxRecords
            /\ acr_records' = Put(acr_records, recordId,
                                  [recordId |-> recordId, ipfsCid |-> ipfsCid,
                                   owner |-> patient, timestamp |-> now], NoPointer)
            /\ Commit(<<acr_RecordAdded(recordId, ipfsCid, patient)>>)
            /\ UNCHANGED <<owner, acr_users, accessGrants, accessRequests,
                           accessEvents, pmStore>>
    /\ UNCHANGED now

acr_grantAccess(sender, grantee, recordId, validUntil, scope) ==
    /\ RegistryDeployed
    /\ LET rec == acr_record(recordId)
           key == _grantKey(recordId, grantee)
       IN
       IF ~onlyExistingUser(sender) THEN Revert("User not registered")
       ELSE IF rec.timestamp = 0 THEN Revert("Unknown record")
       ELSE IF rec.owner # sender THEN Revert("Not owner")
       ELSE IF ~(validUntil > now) THEN Revert("validUntil in past")
       ELSE /\ accessGrants' = Put(accessGrants, key,
                                   [exists |-> TRUE, granter |-> sender,
                                    grantee |-> grantee, recordId |-> recordId,
                                    validUntil |-> validUntil, scope |-> scope],
                                   NoAcrGrant)
            /\ Commit(<<acr_AccessGranted(sender, grantee, recordId, validUntil, scope)>>)
            /\ UNCHANGED <<owner, acr_users, acr_records, accessRequests,
                           accessEvents, pmStore>>
    /\ UNCHANGED now

acr_revokeAccess(sender, grantee, recordId) ==
    /\ RegistryDeployed
    /\ LET key == _grantKey(recordId, grantee)
           grantData == accessGrant(key)
       IN
       IF ~onlyExistingUser(sender) THEN Revert("User not registered")
       ELSE IF ~grantData.exists THEN Revert("No grant")
       ELSE IF ~(grantData.granter = sender \/ acr_record(recordId).owner = sender)
            THEN Revert("Not allowed")
       ELSE /\ accessGrants' = Put(accessGrants, key, NoAcrGrant, NoAcrGrant)  \* delete
            /\ Commit(<<acr_AccessRevoked(sender, grantee, recordId)>>)
            /\ UNCHANGED <<owner, acr_users, acr_records, accessRequests,
                           accessEvents, pmStore>>
    /\ UNCHANGED now

\* view function
hasAccess(grantee, recordId) ==
    LET g == accessGrant(_grantKey(recordId, grantee)) IN
    g.exists /\ g.validUntil >= now

acr_requestAccess(sender, recordId, reason) ==
    /\ RegistryDeployed
    /\ LET requestId == RequestIdOf(sender, recordId, reason, now) IN
       IF ~onlyExistingUser(sender) THEN Revert("User not registered")
       ELSE IF acr_record(recordId).timestamp = 0 THEN Revert("Unknown record")
       ELSE /\ \/ requestId \in DOMAIN accessRequests
               \/ Cardinality(DOMAIN accessRequests) < MaxPending
            /\ accessRequests' = Put(accessRequests, requestId,
                                     [requester |-> sender, recordId |-> recordId,
                                      reason |-> reason, processed |-> FALSE,
                                      approved |-> FALSE], NoAcrRequest)
            /\ Commit(<<acr_AccessRequested(requestId, sender, recordId, reason)>>)
            /\ UNCHANGED <<owner, acr_users, acr_records, accessGrants,
                           accessEvents, pmStore>>
    /\ UNCHANGED now

\* approveRequest that marks the request before the owner check and reports
\* a failed check without rolling the mark back
approveRequest_marksFirst(sender, requestId) ==
    /\ RegistryDeployed
    /\ LET r == accessRequest(requestId)
           key == _grantKey(r.recordId, r.requester)
           validUntil == now + OneDay
           scope == DefaultScope
           marked == Put(accessRequests, requestId,
                         [r EXCEPT !.processed = TRUE, !.approved = TRUE],
                         NoAcrRequest)
       IN
       IF ~onlyExistingUser(sender) THEN Revert("User not registered")
       ELSE IF r.processed THEN Revert("Processed")
       ELSE IF acr_record(r.recordId).owner # sender
            THEN /\ result' = "Not owner"
                 /\ logs' = <<>>
                 /\ accessRequests' = marked
                 /\ UNCHANGED <<owner, acr_users, acr_records, accessGrants,
                                accessEvents, pmStore, gwStore>>
       ELSE IF now + OneDay > UintMax THEN Revert("Panic(0x11)")
       ELSE /\ accessRequests' = marked
            /\ accessGrants' = Put(accessGrants, key,
                                   [exists |-> TRUE, granter |-> sender,
                                    grantee |-> r.requester, recordId |-> r.recordId,
                                    validUntil |-> validUntil, scope |-> scope],
                                   NoAcrGrant)
            /\ Commit(<<acr_AccessGranted(sender, r.requester, r.recordId,
                                          validUntil, scope),
                        AccessRequestApproved(requestId)>>)
            /\ UNCHANGED <<owner, acr_users, acr_records, accessEvents, pmStore>>
    /\ UNCHANGED now

\* approveRequest that marks the request approved and leaves out the inline
\* grant
approveRequest_noGrant(sender, requestId) ==
    /\ RegistryDeployed
    /\ LET r == accessRequest(requestId)
           validUntil == now + OneDay
           scope == DefaultScope
       IN
       IF ~onlyExistingUser(sender) THEN Revert("User not registered")
       ELSE IF r.processed THEN Revert("Processed")
       ELSE IF acr_record(r.recordId).owner # sender THEN Revert("Not owner")
       ELSE IF now + OneDay > UintMax THEN Revert("Panic(0x11)")
       ELSE /\ accessRequests' = Put(accessRequests, requestId,
                                     [r EXCEPT !.processed = TRUE, !.approved = TRUE],
                                     NoAcrRequest)
            /\ Commit(<<acr_AccessGranted(sender, r.requester, r.recordId,
                                          validUntil, scope),
                        AccessRequestApproved(requestId)>>)
            /\ UNCHANGED <<owner, acr_users, acr_records, accessGrants,
                           accessEvents, pmStore>>
    /\ UNCHANGED now

approveRequest(sender, requestId) ==
    /\ RegistryDeployed
    /\ LET r == accessRequest(requestId)
           key == _grantKey(r.recordId, r.requester)
           validUntil == now + OneDay
           scope == DefaultScope
       IN
       IF ~onlyExistingUser(sender) THEN Revert("User not registered")
       ELSE IF r.processed THEN Revert("Processed")
       ELSE IF acr_record(r.recordId).owner # sender THEN Revert("Not owner")
       ELSE IF now + OneDay > UintMax THEN Revert("Panic(0x11)")
       ELSE /\ accessRequests' = Put(accessRequests, requestId,
                                     [r EXCEPT !.processed = TRUE, !.approved = TRUE],
                                     NoAcrRequest)
            /\ accessGrants' = Put(accessGrants, key,
                                   [exists |-> TRUE, granter |-> sender,
                                    grantee |-> r.requester, recordId |-> r.recordId,
                                    validUntil |-> validUntil, scope |-> scope],
                                   NoAcrGrant)
            /\ Commit(<<acr_AccessGranted(sender, r.requester, r.recordId,
                                          validUntil, scope),
                        AccessRequestApproved(requestId)>>)
            /\ UNCHANGED <<owner, acr_users, acr_records, accessEvents, pmStore>>
    /\ UNCHANGED now

\* denyRequest without the check that the caller owns the record
denyRequest_noOwnerCheck(sender, requestId) ==
    /\ RegistryDeployed
    /\ LET r == accessRequest(requestId) IN
       IF ~onlyExistingUser(sender) THEN Revert("User not registered")
       ELSE IF r.processed THEN Revert("Processed")
       ELSE /\ accessRequests' = Put(accessRequests, requestId,
                                     [r EXCEPT !.processed = TRUE, !.approved = FALSE],
                                     NoAcrRequest)
            /\ Commit(<<AccessRequestDenied(requestId)>>)
            /\ UNCHANGED <<owner, acr_users, acr_records, accessGrants,
                           accessEvents, pmStore>>
    /\ UNCHANGED now

\* denyRequest that also deletes the grant of the requester on the record
denyRequest_deletesGrant(sender, requestId) ==
    /\ RegistryDeployed
    /\ LET r == accessRequest(requestId) IN
       IF ~onlyExistingUser(sender) THEN Revert("User not registered")
       ELSE IF r.processed THEN Revert("Processed")
       ELSE IF acr_record(r.recordId).owner # sender THEN Revert("Not owner")
       ELSE /\ accessRequests' = Put(accessRequests, requestId,
                                     [r EXCEPT !.processed = TRUE, !.approved = FALSE],
                                     NoAcrRequest)
            /\ accessGrants' = Put(accessGrants, _grantKey(r.recordId, r.requester),
                                   NoAcrGrant, NoAcrGrant)
            /\ Commit(<<AccessRequestDenied(requestId)>>)
            /\ UNCHANGED <<owner, acr_users, acr_records, accessEvents, pmStore>>
    /\ UNCHANGED now

denyRequest(sender, requestId) ==
    /\ RegistryDeployed
    /\ LET r == accessRequest(requestId) IN
       IF ~onlyExistingUser(sender) THEN Revert("User not registered")
       ELSE IF r.processed THEN Revert("Processed")
       ELSE IF acr_record(r.recordId).owner # sender THEN Revert("Not owner")
       ELSE /\ accessRequests' = Put(accessRequests, requestId,
                                     [r EXCEPT !.processed = TRUE, !.approved = FALSE],
                                     NoAcrRequest)
            /\ Commit(<<AccessRequestDenied(requestId)>>)
            /\ UNCHANGED <<owner, acr_users, acr_records, accessGrants,
                           accessEvents, pmStore>>
    /\ UNCHANGED now

RECURSIVE NumEvents(_)
NumEvents(m) ==
    IF DOMAIN m = {} THEN 0
    ELSE LET k == CHOOSE x \in DOMAIN m : TRUE
         IN Len(m[k]) + NumEvents([x \in DOMAIN m \ {k} |-> m[x]])

\* logAccessEvent that stores the newest event first
acr_logAccessEvent_prepends(sender, actor, recordId, success, action) ==
    /\ RegistryDeployed
    /\ IF ~onlyExistingUser(sender) THEN Revert("User not registered")
       ELSE IF acr_record(recordId).timestamp = 0 THEN Revert("Unknown record")
       ELSE LET ev == [actor |-> actor, recordId |-> recordId, success |-> success,
                       timestamp |-> now, action |-> action]
            IN /\ accessEvents' = Put(accessEvents, recordId,
                                      <<ev>> \o accessEventsOf(recordId), <<>>)
               /\ Commit(<<AccessEventLogged(actor, recordId, success, now, action)>>)
               /\ UNCHANGED <<owner, acr_users, acr_records, accessGrants,
                              accessRequests, pmStore>>
    /\ UNCHANGED now

acr_logAccessEvent(sender, actor, recordId, success, action) ==
    /\ RegistryDeployed
    /\ IF ~onlyExistingUser(sender) THEN Revert("User not registered")
       ELSE IF acr_record(recordId).timestamp = 0 THEN Revert("Unknown record")
       ELSE LET ev == [actor |-> actor, recordId |-> recordId, success |-> success,
                       timestamp |-> now, action |-> action]
            IN /\ accessEvents' = Put(accessEvents, recordId,
                                      Append(accessEventsOf(recordId), ev), <<>>)
               /\ Commit(<<AccessEventLogged(actor, recordId, success, now, action)>>)
               /\ UNCHANGED <<owner, acr_users, acr_records, accessGrants,
                              accessRequests, pmStore>>
    /\ UNCHANGED now

\* view function
getAccessLog(recordId) == accessEventsOf(recordId)

acr_emergencyAccess(sender, recordId, justificationHash) ==
    /\ RegistryDeployed
    /\ IF ~onlyRole(sender, ROLE_RESPONDER) THEN Revert("Invalid role")
       ELSE IF acr_record(recordId).timestamp = 0 THEN Revert("Unknown record")
       ELSE /\ Commit(<<acr_EmergencyAccess(sender, recordId, justificationHash, now)>>)
            /\ UNCHANGED <<pmStore, acrStore>>
    /\ UNCHANGED now

(***************************************************************************)
(* The gateway (express backend in front of PrivaMed)                      *)
(***************************************************************************)
Plaintexts == {"note"}
\* plaintext fields of a request body; "" is a missing or blank plaintext
PlaintextArgs == Plaintexts \cup {""}
SymKeys == {"k1"}               \* outcomes of generateSymmetricKey()
GatewayIds == {"rec1", "rec2"}          \* record ids chosen by the client
UnknownGatewayId == "rec0"
GatewayPatients == {"alice"}    \* patientAddress fields of a request body
NoHash == <<>>                  \* recordIdHash: null
\* the first account of the node: it deploys PrivaMed and signs for the gateway
AdminSigner == Deployer

JsonStringify(obj) == <<"json", obj>>
JsonParseable(str) == str[1] = "json"
JsonParse(str) == str[2]

encryptRecord(plaintext, key) == [key |-> key, data |-> plaintext]
decryptRecord(enc, key) == IF enc.key = key THEN enc.data ELSE <<"garbage">>

\* content addressing: the cid of a stored object
IpfsCid(obj) ==
    IF obj = encryptRecord(JsonStringify([kind |-> "note", text |-> "note"]), "k1")
    THEN "QmA" ELSE "QmB"
getJson(cid) == Get(ipfs, cid, <<>>)

\* POST /api/records: encrypt and store the record off-chain, then try to
\* register the patient and the record on-chain with the admin signer; a
\* failing chain call is caught and leaves recordIdHash null
postRecord(patientAddress, recordId, plaintext, key) ==
    /\ PrivaMedDeployed
    /\ IF plaintext = ""
       THEN /\ result' = "400"
            /\ logs' = <<>>
            /\ UNCHANGED <<pmStore, gwStore>>
       ELSE LET contentEnvelope == [kind |-> "note", text |-> plaintext]
                enc == encryptRecord(JsonStringify(contentEnvelope), key)
                cid == IpfsCid(enc)
                meta == [cid |-> cid, owner |-> patientAddress, keyHex |-> key,
                         recordIdHash |-> NoHash]
                mustRegister == ~user(patientAddress).exists
                registerError ==
                    IF ~mustRegister THEN "ok"
                    ELSE IF AdminSigner # admin THEN "Admin only"
                    ELSE IF patientAddress = ZeroAddr THEN "zero address"
                    ELSE "ok"
                users1 == IF mustRegister /\ registerError = "ok"
                          THEN Put(users, patientAddress,
                                   [role |-> "Patient", exists |-> TRUE], NoUser)
                          ELSE users
                signer == Get(users1, AdminSigner, NoUser)
                recordIdHash == RecordIdOf(AdminSigner, cid, now)
                addError ==
                    IF ~signer.exists THEN "User not registered"
                    ELSE IF ~(signer.role = "Patient" \/ signer.role = "Auditor")
                         THEN "Only patient or auditor may add records"
                    ELSE IF record(recordIdHash).exists THEN "RecordId already exists"
                    ELSE "ok"
            IN /\ Cardinality(DOMAIN records) < MaxRecords
               /\ ipfs' = Put(ipfs, cid, enc, <<>>)
               /\ posts' = posts
               /\ users' = users1
               /\ IF registerError # "ok" \/ addError # "ok"
                  THEN /\ localRecords' = Put(localRecords, recordId, meta, NoHash)
                       /\ records' = records
                       /\ result' = IF registerError # "ok" THEN registerError
                                    ELSE addError
                       /\ logs' = <<>>
                  ELSE /\ localRecords' =
                             Put(localRecords, recordId,
                                 [meta EXCEPT !.recordIdHash = recordIdHash], NoHash)
                       /\ records' = Put(records, recordIdHash,
                                         [owner |-> AdminSigner, cid |-> cid,
                                          createdAt |-> now, exists |-> TRUE],
                                         NoRecord)
                       /\ result' = "ok"
                       /\ logs' = <<RecordAdded(recordIdHash, AdminSigner, cid)>>
               /\ UNCHANGED <<admin, grants, requests>>
    /\ UNCHANGED <<now, acrStore>>

\* POST /api/records as it runs on the event loop: the handler is suspended
\* at its awaits and other handlers run in between.  posts[h] is the local
\* state of handler h; pc names the await it is suspended at.
Handlers == 1..MaxPosts
RacePlaintexts == {"note", "scan"}
RaceIds == {"rec1"}             \* the record id that the uploads share

\* from the request to `await addJson(enc)`
postBegin(h, patientAddress, recordId, plaintext, key) ==
    /\ PrivaMedDeployed
    /\ h \notin DOMAIN posts
    /\ IF plaintext = ""
       THEN /\ result' = "400"
            /\ logs' = <<>>
            /\ UNCHANGED <<pmStore, gwStore>>
       ELSE LET contentEnvelope == [kind |-> "note", text |-> plaintext]
                enc == encryptRecord(JsonStringify(contentEnvelope), key)
                cid == IpfsCid(enc)
            IN /\ ipfs' = Put(ipfs, cid, enc, <<>>)
               /\ posts' = Put(posts, h,
                               [pc |-> "addJson", patientAddress |-> patientAddress,
                                recordId |-> recordId, cid |-> cid, keyHex |-> key,
                                recordIdHash |-> NoHash, chainErr |-> FALSE], <<>>)
               /\ UNCHANGED <<pmStore, localRecords, result, logs>>
    /\ UNCHANGED <<now, acrStore>>

\* from the cid to `await getSigner()`: localRecords.set(recordId, ...)
postStore(h) ==
    /\ PrivaMedDeployed
    /\ h \in DOMAIN posts
    /\ posts[h].pc = "addJson"
    /\ localRecords' = Put(localRecords, posts[h].recordId,
                           [cid |-> posts[h].cid, owner |-> posts[h].patientAddress,
                            keyHex |-> posts[h].keyHex, recordIdHash |-> NoHash],
                           NoHash)
    /\ posts' = [posts EXCEPT ![h].pc = "getSigner"]
    /\ UNCHANGED <<now, pmStore, acrStore, ipfs, result, logs>>

\* the chain calls, to `await tx.wait()`: ensureUserRegistered and addRecord
\* with the admin signer; a failing call throws to the catch clause
postChain(h) ==
    /\ PrivaMedDeployed
    /\ h \in DOMAIN posts
    /\ posts[h].pc = "getSigner"
    /\ LET patientAddress == posts[h].patientAddress
           cid == posts[h].cid
           mustRegister == ~user(patientAddress).exists
           registerError ==
               IF ~mustRegister THEN "ok"
               ELSE IF AdminSigner # admin THEN "Admin only"
               ELSE IF patientAddress = ZeroAddr THEN "zero address"
               ELSE "ok"
           users1 == IF mustRegister /\ registerError = "ok"
                     THEN Put(users, patientAddress,
                              [role |-> "Patient", exists |-> TRUE], NoUser)
                     ELSE users
           signer == Get(users1, AdminSigner, NoUser)
           recordIdHash == RecordIdOf(AdminSigner, cid, now)
           addError ==
               IF ~signer.exists THEN "User not registered"
               ELSE IF ~(signer.role = "Patient" \/ signer.role = "Auditor")
                    THEN "Only patient or auditor may add records"
               ELSE IF record(recordIdHash).exists THEN "RecordId already exists"
               ELSE "ok"
       IN /\ users' = users1
          /\ IF registerError # "ok" \/ addError # "ok"
             THEN /\ records' = records
                  /\ posts' = [posts EXCEPT ![h].pc = "wait", ![h].chainErr = TRUE]
                  /\ result' = IF registerError # "ok" THEN registerError ELSE addError
                  /\ logs' = <<>>
             ELSE /\ Cardinality(DOMAIN records) < MaxRaceRecords
                  /\ records' = Put(records, recordIdHash,
                                    [owner |-> AdminSigner, cid |-> cid,
                                     createdAt |-> now, exists |-> TRUE], NoRecord)
                  /\ posts' = [posts EXCEPT ![h].pc = "wait",
                                            ![h].recordIdHash = recordIdHash]
                  /\ result' = "ok"
                  /\ logs' = <<RecordAdded(recordIdHash, AdminSigner, cid)>>
          /\ UNCHANGED <<admin, grants, requests>>
    /\ UNCHANGED <<now, acrStore, localRecords, ipfs>>

\* from the receipt to the response: the recordIdHash found in the receipt is
\* written into the entry that localRecords holds for the recordId now
postFinish(h) ==
    /\ PrivaMedDeployed
    /\ h \in DOMAIN posts
    /\ posts[h].pc = "wait"
    /\ localRecords' =
          IF ~posts[h].chainErr /\ posts[h].recordId \in DOMAIN localRecords
          THEN [localRecords EXCEPT
                   ![posts[h].recordId].recordIdHash = posts[h].recordIdHash]
          ELSE localRecords
    /\ posts' = [x \in DOMAIN posts \ {h} |-> posts[x]]
    /\ result' = "200"
    /\ logs' = <<[recordId |-> posts[h].recordId, cid |-> posts[h].cid,
                  recordIdHash |-> posts[h].recordIdHash]>>
    /\ UNCHANGED <<now, pmStore, acrStore, ipfs>>

\* the loop of the provider listing over the entries of localRecords: an
\* entry without recordIdHash is skipped, a failing isAuthorized call counts
\* as not authorized (the order of the listing is not modelled)
RECURSIVE ListLoop(_, _, _)
ListLoop(ids, providerAddress, results) ==
    IF ids = {} THEN results
    ELSE LET recordId == CHOOSE x \in ids : TRUE
             meta == localRecords[recordId]
             answer == isAuthorized(meta.recordIdHash, providerAddress)
             authorized == IF answer \in {"true", "false"} THEN answer = "true"
                           ELSE FALSE
         IN IF meta.recordIdHash = NoHash
            THEN ListLoop(ids \ {recordId}, providerAddress, results)
            ELSE ListLoop(ids \ {recordId}, providerAddress,
                          IF authorized
                          THEN results \cup {[recordId |-> recordId, cid |-> meta.cid,
                                               recordIdHash |-> meta.recordIdHash,
                                               owner |-> meta.owner]}
                          ELSE results)

\* the listing without the isAuthorized call
listProviderRecords_noChainCheck(providerAddress) ==
    /\ PrivaMedDeployed
    /\ IF providerAddress = ""
       THEN /\ result' = "400"
            /\ logs' = <<[error |-> "providerAddress required"]>>
       ELSE /\ result' = "200"
            /\ logs' = <<[records |->
                            {[recordId |-> id, cid |-> localRecords[id].cid,
                              recordIdHash |-> localRecords[id].recordIdHash,
                              owner |-> localRecords[id].owner] :
                             id \in {x \in DOMAIN localRecords :
                                       localRecords[x].recordIdHash # NoHash}}]>>
    /\ UNCHANGED <<now, pmStore, acrStore, gwStore>>

\* GET /api/providers/:providerAddress/records
listProviderRecords(providerAddress) ==
    /\ PrivaMedDeployed
    /\ IF providerAddress = ""
       THEN /\ result' = "400"
            /\ logs' = <<[error |-> "providerAddress required"]>>
       ELSE /\ result' = "200"
            /\ logs' = <<[records |-> ListLoop(DOMAIN localRecords, providerAddress, {})]>>
    /\ UNCHANGED <<now, pmStore, acrStore, gwStore>>

\* GET /api/records/:recordId: the response (status in result, body in logs)
getRecord(recordId) ==
    /\ PrivaMedDeployed
    /\ IF recordId \notin DOMAIN localRecords
       THEN /\ result' = "404"
            /\ logs' = <<[error |-> "record not found"]>>
       ELSE LET meta == localRecords[recordId]
                enc == getJson(meta.cid)
                decrypted == decryptRecord(enc, meta.keyHex)
                payload == IF JsonParseable(decrypted) THEN JsonParse(decrypted)
                           ELSE [kind |-> "note", text |-> decrypted]
            IN /\ result' = "200"
               /\ logs' = <<[recordId |-> recordId, payload |-> payload,
                             cid |-> meta.cid, recordIdHash |-> meta.recordIdHash]>>
    /\ UNCHANGED <<now, pmStore, acrStore, gwStore>>

(***************************************************************************)
(* The chain                                                               *)
(***************************************************************************)
\* a later block: block.timestamp is monotonic, not strictly increasing
Tick ==
    /\ now < MaxTime
    /\ now' = now + 1
    /\ UNCHANGED <<pmStore, acrStore, result, logs, gwStore>>

\* storage before any constructor ran: every slot is zero
ZeroChain ==
    /\ now = 1
    /\ result = "ok"
    /\ logs = <<>>
    /\ users = EmptyMap
    /\ records = EmptyMap
    /\ grants = EmptyMap
    /\ requests = <<>>
    /\ acr_users = EmptyMap
    /\ acr_records = EmptyMap
    /\ accessGrants = EmptyMap
    /\ accessRequests = EmptyMap
    /\ accessEvents = EmptyMap
    /\ localRecords = EmptyMap
    /\ ipfs = EmptyMap
    /\ posts = EmptyMap

\* PrivaMed: constructor() { admin = msg.sender; }
InitPrivaMed == ZeroChain /\ admin = Deployer /\ owner = ZeroAddr

\* AccessControlRegistry: constructor() Ownable(msg.sender) {}
InitRegistry == ZeroChain /\ admin = ZeroAddr /\ owner = Deployer

Init == InitPrivaMed \/ InitRegistry

\* record ids submitted as arguments: every stored record and an unknown id
RecordArgs == DOMAIN records \cup {UnknownId}

\* request ids submitted as arguments: every stored request and an unknown id
RequestArgs == DOMAIN accessRequests \cup {UnknownRequest}

GranteeArgs == {"bob", "alice"}

NextPrivaMed ==
    \/ Tick
    \/ \E s \in Addr, a \in RegArgs : registerUser(s, a[1], a[2])
    \/ \E s \in Addr, c \in Cids : addRecord(s, c)
    \/ \E s \in Addr, id \in RecordArgs, g \in GranteeArgs, v \in ValidUntils, sc \in Scopes :
          grantAccess(s, id, g, v, sc)
    \/ \E s \in Addr, id \in RecordArgs, g \in GranteeArgs : revokeAccess(s, id, g)
    \/ \E s \in Addr, id \in RecordArgs, rs \in Reasons : requestAccess(s, id, rs)
    \/ \E s \in Addr, id \in RecordArgs, j \in Justifications, d \in Durations :
          emergencyAccess(s, id, j, d)
    \/ \E s \in Addr, id \in RecordArgs, a \in LogActors, ok \in BOOLEAN, act \in Actions :
          logAccessEvent(s, id, a, ok, act)

AcrGranteeArgs == {"bob"}
\* requestAccess callers: a responder and the patient who owns the records
Requesters == {"bob", "alice"}

NextRegistry ==
    \/ Tick
    \/ \E s \in Addr, a \in AcrRegArgs, k \in Pems : acr_registerUser(s, a[1], a[2], k)
    \/ \E s \in Addr, id \in AcrRecordIds, c \in Cids, p \in {"alice", "bob"} :
          acr_addRecord(s, id, c, p)
    \/ \E s \in Addr, g \in AcrGranteeArgs, id \in AcrRecordIds, v \in ValidUntils,
          sc \in Scopes : acr_grantAccess(s, g, id, v, sc)
    \/ \E s \in Addr, g \in AcrGranteeArgs, id \in AcrRecordIds : acr_revokeAccess(s, g, id)
    \/ \E s \in Requesters, id \in AcrRecordIds, rs \in Reasons : acr_requestAccess(s, id, rs)
    \/ \E s \in Addr, id \in RequestArgs : approveRequest(s, id)
    \/ \E s \in Addr, id \in RequestArgs : denyRequest(s, id)
    \/ \E s \in Addr, a \in LogActors, id \in AcrRecordIds, ok \in BOOLEAN, act \in Actions :
          /\ NumEvents(accessEvents) < MaxEvents
          /\ acr_logAccessEvent(s, a, id, ok, act)
    \/ \E s \in Addr, id \in AcrRecordIds, j \in Justifications :
          acr_emergencyAccess(s, id, j)

Next == NextPrivaMed \/ NextRegistry

\* AccessControlRegistry with a longer audit log: every external function is
\* called, with one patient, one responder and one record id to add, so that
\* several events accumulate under the same record
AuditRegArgs == {<<"alice", ROLE_PATIENT>>, <<"bob", ROLE_RESPONDER>>}
AuditRecordIds == {"r1"}
AuditValidUntils == {MaxTime - 1}
AuditRequesters == {"bob"}

NextAuditLog ==
    \/ Tick
    \/ \E s \in Addr, a \in AuditRegArgs, k \in Pems : acr_registerUser(s, a[1], a[2], k)
    \/ \E s \in Addr, id \in AuditRecordIds, c \in Cids, p \in {"alice", "bob"} :
          acr_addRecord(s, id, c, p)
    \/ \E s \in Addr, g \in AcrGranteeArgs, id \in AcrRecordIds, v \in AuditValidUntils,
          sc \in Scopes : acr_grantAccess(s, g, id, v, sc)
    \/ \E s \in Addr, g \in AcrGranteeArgs, id \in AcrRecordIds : acr_revokeAccess(s, g, id)
    \/ \E s \in AuditRequesters, id \in AcrRecordIds, rs \in Reasons :
          acr_requestAccess(s, id, rs)
    \/ \E s \in Addr, id \in RequestArgs : approveRequest(s, id)
    \/ \E s \in Addr, id \in RequestArgs : denyRequest(s, id)
    \/ \E s \in Addr, a \in LogActors, id \in AcrRecordIds, ok \in BOOLEAN, act \in Actions :
          /\ NumEvents(accessEvents) < MaxLog
          /\ acr_logAccessEvent(s, a, id, ok, act)
    \/ \E s \in Addr, id \in AcrRecordIds, j \in Justifications :
          acr_emergencyAccess(s, id, j)

\* PrivaMed alone
SpecPrivaMed == InitPrivaMed /\ [][NextPrivaMed]_vars

\* AccessControlRegistry alone
SpecRegistry == InitRegistry /\ [][NextRegistry]_vars

\* AccessControlRegistry alone, with the longer audit log
SpecAuditLog == InitRegistry /\ [][NextAuditLog]_vars

\* PrivaMed behind the gateway: the admin signer can be registered as the
\* backend auditor, bob as a provider, and the gateway registers the patients
GatewayRegArgs == {<<"admin", "Auditor">>, <<"bob", "Provider">>}
GatewayGrantees == {"bob"}

NextGateway ==
    \/ Tick
    \/ \E s \in Addr, a \in GatewayRegArgs : registerUser(s, a[1], a[2])
    \/ \E s \in Addr, c \in Cids : addRecord(s, c)
    \/ \E s \in Addr, id \in RecordArgs, g \in GatewayGrantees, v \in ValidUntils,
          sc \in Scopes : grantAccess(s, id, g, v, sc)
    \/ \E s \in Addr, id \in RecordArgs, g \in GatewayGrantees : revokeAccess(s, id, g)
    \/ \E s \in Addr, id \in RecordArgs, rs \in Reasons : requestAccess(s, id, rs)
    \/ \E s \in Addr, id \in RecordArgs, j \in Justifications, d \in Durations :
          emergencyAccess(s, id, j, d)
    \/ \E s \in Addr, id \in RecordArgs, a \in LogActors, ok \in BOOLEAN, act \in Actions :
          logAccessEvent(s, id, a, ok, act)
    \/ \E p \in GatewayPatients, id \in GatewayIds, t \in PlaintextArgs, k \in SymKeys :
          postRecord(p, id, t, k)
    \/ \E id \in GatewayIds \cup {UnknownGatewayId} : getRecord(id)
    \/ \E p \in Addr : listProviderRecords(p)

\* PrivaMed with the gateway in front of it
SpecGateway == InitPrivaMed /\ [][NextGateway]_vars

\* the gateway with interleaved POST /api/records handlers
NextGatewayRace ==
    \/ Tick
    \/ \E s \in Addr, a \in GatewayRegArgs : registerUser(s, a[1], a[2])
    \/ \E h \in Handlers, p \in GatewayPatients, id \in RaceIds,
          t \in RacePlaintexts \cup {""}, k \in SymKeys : postBegin(h, p, id, t, k)
    \/ \E h \in Handlers : postStore(h)
    \/ \E h \in Handlers : postChain(h)
    \/ \E h \in Handlers : postFinish(h)
    \/ \E id \in RaceIds \cup {UnknownGatewayId} : getRecord(id)

SpecGatewayRace == InitPrivaMed /\ [][NextGatewayRace]_vars

\* either contract
Spec == Init /\ [][Next]_vars

(***************************************************************************)
(* Properties                                                              *)
(***************************************************************************)
\* the single event of the last receipt names the grant slot (R, G)
Touches(ev, R, G) ==
    \/ /\ ev.event \in {"AccessGranted", "AccessRevoked"}
       /\ ev.recordId = R
       /\ ev.grantee = G
    \/ /\ ev.event = "EmergencyAccess"
       /\ ev.recordId = R
       /\ ev.actor = G

BoolStr(b) == IF b THEN "true" ELSE "false"

\* C1 -- Authorization correctness (PrivaMed).  After grantAccess(R, G,
\* validUntil, scope) succeeds, and until a later revokeAccess, grantAccess or
\* emergencyAccess touches (R, G), isAuthorized(R, G) is true at every clock
\* value t <= validUntil (at every clock value when validUntil = 0) and false
\* at every t > validUntil.  First conjunct: while the grant is the last
\* transaction, at every clock value.  Second conjunct: a step that is not a
\* grant, revoke or emergency access on (R, G) leaves grants[R][G] as it was
\* and never removes the record, so only the clock moves the answer.
C1_GrantedIsAuthorized ==
    (Len(logs) = 1 /\ logs[1].event = "AccessGranted") =>
        LET e == logs[1] IN
        isAuthorized(e.recordId, e.grantee)
            = BoolStr(e.validUntil = 0 \/ now <= e.validUntil)

C1_OnlyTouchesChange ==
    \A R \in DOMAIN records, G \in Addr :
        /\ R \in DOMAIN records'
        /\ grant(R, G)' # grant(R, G) => Len(logs') = 1 /\ Touches(logs'[1], R, G)

C1_AuthorizationCorrectness ==
    [] C1_GrantedIsAuthorized /\ [][C1_OnlyTouchesChange]_vars

\* the grant of (R, G) has expired: the clock passed a non-zero validUntil
C1_Witness ==
    /\ Len(logs) = 1
    /\ logs[1].event = "AccessGranted"
    /\ logs[1].validUntil # 0
    /\ now > logs[1].validUntil
    /\ isAuthorized(logs[1].recordId, logs[1].grantee) = "false"

\* C2 -- Revocation is immediate (PrivaMed).  In the state right after a
\* successful revokeAccess(R, G) by the owner of R, and at every later clock
\* value until the next transaction, isAuthorized(R, G) is false, whatever
\* validUntil the revoked grant carried.
C2_RevocationImmediate ==
    \A R \in DOMAIN records, G \in Addr :
        logs = <<AccessRevoked(R, G)>> => isAuthorized(R, G) = "false"

\* a grant that had no expiry, or time left, has just been revoked
C2_Witness ==
    \E R \in DOMAIN records, G \in Addr :
        /\ logs = <<AccessRevoked(R, G)>>
        /\ grant(R, G).validUntil = 0 \/ grant(R, G).validUntil > now
        /\ isAuthorized(R, G) = "false"

\* C3 -- No resurrection, as the original statement has it: revokeAccess(R, G)
\* for a pair that was never granted, or whose grant is already revoked,
\* always aborts with the grant-not-active error and leaves the grant store
\* unchanged.
C3_AlwaysGrantNotActive ==
    [][\A s \in Addr, R \in RecordArgs, G \in GranteeArgs :
          (revokeAccess(s, R, G) /\ ~grant(R, G).active) =>
              (result' = "Grant not active" /\ grants' = grants)]_vars

\* C3 -- No resurrection, amended: such a revokeAccess aborts for every caller
\* and leaves the grant store unchanged; the abort is the grant-not-active
\* error ("Grant not active" in PrivaMed, "No grant" in AccessControlRegistry)
\* whenever the call passes the checks made before it (PrivaMed: R exists and
\* the caller is its owner; AccessControlRegistry: the caller is registered).
\* Revoking an active grant by the owner succeeds, expired or not.
\* Stated of every call that can be made in a reachable state: no
\* revokeAccess call can end in another way.
C3_PrivaMedCall ==
    PrivaMedDeployed =>
        \A s \in Addr, R \in RecordArgs, G \in GranteeArgs :
            ~ ENABLED (/\ revokeAccess(s, R, G)
                       /\ ~ (IF ~grant(R, G).active
                             THEN /\ result' # "ok"
                                  /\ grants' = grants
                                  /\ (record(R).exists /\ s = record(R).owner)
                                         => result' = "Grant not active"
                             ELSE (record(R).exists /\ s = record(R).owner)
                                         => (result' = "ok" /\ ~grant(R, G)'.active)))

C3_RegistryCall ==
    RegistryDeployed =>
        \A s \in Addr, G \in AcrGranteeArgs, R \in AcrRecordIds :
            ~accessGrant(_grantKey(R, G)).exists =>
                ~ ENABLED (/\ acr_revokeAccess(s, G, R)
                           /\ ~ (/\ result' # "ok"
                                 /\ accessGrants' = accessGrants
                                 /\ onlyExistingUser(s) => result' = "No grant"))

C3_NoResurrection == C3_PrivaMedCall /\ C3_RegistryCall

\* the owner has just tried to revoke a grant that is already revoked
C3_Witness ==
    /\ result = "Grant not active"
    /\ \E k \in DOMAIN grants : ~grants[k].active

\* C4 -- Request monotonicity (AccessControlRegistry).  Once a request is
\* processed it stays processed and its approved flag never changes, over any
\* sequence of operations (further requestAccess calls included); every later
\* approveRequest or denyRequest with the same id aborts.
C4_ProcessedIsFinal ==
    \A id \in DOMAIN accessRequests :
        accessRequest(id).processed =>
            /\ accessRequest(id)'.processed
            /\ accessRequest(id)'.approved = accessRequest(id).approved
            /\ \A s \in Addr :
                  (approveRequest(s, id) \/ denyRequest(s, id)) => result' # "ok"

C4_RequestMonotonicity == [][C4_ProcessedIsFinal]_vars

\* the caller may use break-glass access on R: a registered Provider, R exists
MayBreakGlass(s, R) ==
    record(R).exists /\ user(s).exists /\ user(s).role = "Provider"

C5_BreakGlassStep ==
    \A s \in Addr, R \in RecordArgs, j \in Justifications, d \in Durations :
        (MayBreakGlass(s, R) /\ emergencyAccess(s, R, j, d)) =>
            IF now + d <= UintMax
            THEN /\ result' = "ok"
                 /\ grant(R, s)' = [active |-> TRUE, validUntil |-> now + d,
                                    scope |-> ZeroScope]
            ELSE /\ result' = "Panic(0x11)"
                 /\ grants' = grants

C5_BreakGlassAuthorized ==
    (Len(logs) = 1 /\ logs[1].event = "EmergencyAccess") =>
        LET e == logs[1] IN
        /\ grant(e.recordId, e.actor) = [active |-> TRUE, validUntil |-> e.validUntil,
                                         scope |-> ZeroScope]
        /\ now <= e.validUntil => isAuthorized(e.recordId, e.actor) = "true"

C6_EmergencyEmits ==
    \A s \in Addr, R \in RecordArgs, j \in Justifications, d \in Durations :
        (result' = "ok" /\ emergencyAccess(s, R, j, d)) =>
            logs' = <<EmergencyAccess(R, s, j, now + d, now)>>

C6_BypassIsLogged ==
    \A R \in DOMAIN records, G \in Addr :
        grant(R, G)' # grant(R, G) =>
            /\ Len(logs') = 1
            /\ \/ /\ logs'[1].event \in {"AccessGranted", "AccessRevoked"}
                  /\ logs'[1].recordId = R
                  /\ logs'[1].grantee = G
               \/ /\ logs'[1].event = "EmergencyAccess"
                  /\ logs'[1].recordId = R
                  /\ logs'[1].actor = G
                  /\ logs'[1].justificationHash \in Justifications
                  /\ logs'[1].validUntil = grant(R, G)'.validUntil

C6_EmergencyIsLogged == [][C6_EmergencyEmits /\ C6_BypassIsLogged]_vars

\* a break-glass call has just succeeded: its EmergencyAccess event is the
\* receipt and the caller holds an active grant with the zero scope
C6_Witness ==
    /\ Len(logs) = 1
    /\ logs[1].event = "EmergencyAccess"
    /\ logs[1].justificationHash \in Justifications
    /\ grant(logs[1].recordId, logs[1].actor).scope = ZeroScope
    /\ grant(logs[1].recordId, logs[1].actor).active

\* C7 -- Owner-only grant and revoke.  grantAccess(R, ...) and
\* revokeAccess(R, ...) by any caller other than the owner of R (the admin,
\* another registered principal, the grantee itself) abort and leave every
\* grant unchanged, in PrivaMed and in AccessControlRegistry.  Stated of
\* every such call that can be made in a reachable state.
C7_PrivaMedCall ==
    PrivaMedDeployed =>
        \A s \in Addr, R \in RecordArgs, G \in GranteeArgs :
            s # record(R).owner =>
                ~ ENABLED (/\ \/ revokeAccess(s, R, G)
                              \/ \E v \in ValidUntils, sc \in Scopes :
                                    grantAccess(s, R, G, v, sc)
                           /\ ~ (result' # "ok" /\ grants' = grants))

C7_RegistryCall ==
    RegistryDeployed =>
        \A s \in Addr, G \in AcrGranteeArgs, R \in AcrRecordIds :
            s # acr_record(R).owner =>
                ~ ENABLED (/\ \/ acr_revokeAccess(s, G, R)
                              \/ \E v \in ValidUntils, sc \in Scopes :
                                    acr_grantAccess(s, G, R, v, sc)
                           /\ ~ (result' # "ok" /\ accessGrants' = accessGrants))

C7_OwnerOnly == C7_PrivaMedCall /\ C7_RegistryCall

\* a caller other than the owner has just been refused a revocation while a
\* grant to a principal other than the owner is active
C7_Witness ==
    /\ result = "Only owner can revoke"
    /\ \E k \in DOMAIN grants : grants[k].active /\ record(k[1]).owner # k[2]

\* C8 -- Registration is add-only (PrivaMed).  registerUser for a principal
\* that is already registered aborts, so a principal that was registered with
\* role r still has role r after every step.
C8_RegistrationAddOnly ==
    [][\A a \in Addr :
          user(a).exists =>
              /\ user(a)' = user(a)
              /\ \A s \in Addr, r \in Role :
                    registerUser(s, a, r) => result' # "ok"]_vars

\* C9 -- Only the administrator registers principals (PrivaMed).
\* registerUser called by any principal other than the admin aborts with
\* "Admin only" and leaves the user registry unchanged; a principal's role and
\* exists flag are set only by a successful call of the admin, to the role
\* that call names.
C9_NonAdminRefused ==
    \A s \in Addr \ {admin}, a \in RegArgs :
        registerUser(s, a[1], a[2]) => (result' = "Admin only" /\ users' = users)

C9_SetByAdminOnly ==
    users' # users =>
        \E a \in RegArgs :
            /\ registerUser(admin, a[1], a[2])
            /\ result' = "ok"
            /\ user(a[1])' = [role |-> a[2], exists |-> TRUE]
            /\ \A b \in Addr \ {a[1]} : user(b)' = user(b)

C9_AdminOnly == [][C9_NonAdminRefused /\ C9_SetByAdminOnly]_vars

\* a registered principal has just been refused a registration
C9_Witness ==
    /\ result = "Admin only"
    /\ DOMAIN users # {}

\* C10 -- Atomic commit-or-abort.  A transaction of either contract that
\* aborts (its outcome is a revert reason) leaves users, records, grants,
\* requests and the stored access events exactly as they were and emits no
\* event.
C10_AbortChangesNothing ==
    result' # "ok" =>
        /\ UNCHANGED <<admin, users, records, grants, requests>>
        /\ UNCHANGED <<owner, acr_users, acr_records, accessGrants, accessRequests,
                       accessEvents>>
        /\ logs' = <<>>

C11_SecondAddCollides ==
    \A s \in Addr, c \in Cids :
        record(RecordIdOf(s, c, now)).exists =>
            ~ ENABLED (/\ addRecord(s, c)
                       /\ ~ (/\ result' = "RecordId already exists"
                             /\ records' = records))
\* C12 -- Records are immutable and owned by the acting principal (PrivaMed).
\* A successful addRecord(cid) by caller c stores, under the id it returns,
\* the record (owner = c, cid, createdAt = now, exists), whatever role among
\* Patient and Auditor c holds; and no step modifies or deletes a stored
\* record.
C12_AddRecordStores ==
    \A s \in Addr, c \in Cids :
        ~ ENABLED (/\ addRecord(s, c)
                   /\ result' = "ok"
                   /\ record(RecordIdOf(s, c, now))'
                          # [owner |-> s, cid |-> c, createdAt |-> now, exists |-> TRUE])

C12_RecordsKept ==
    \A R \in DOMAIN records : R \in DOMAIN records' /\ records'[R] = records[R]

C12_RecordsImmutable == [] C12_AddRecordStores /\ [][C12_RecordsKept]_vars

\* a record added by an Auditor is still there, with its owner, in a later
\* block and after a grant was made on it
C12_Witness ==
    \E R \in DOMAIN records :
        /\ user(record(R).owner).role = "Auditor"
        /\ record(R).owner = R[1]
        /\ now > record(R).createdAt
        /\ \E k \in DOMAIN grants : k[1] = R
\* C13 -- Record creation is role-gated.  addRecord by a caller that is
\* unregistered, or registered with a role other than Patient or Auditor,
\* aborts and creates no record; a registered Patient or Auditor succeeds
\* (when the id is free and, in AccessControlRegistry, the named patient is a
\* registered patient).  Stated of every addRecord call of either contract
\* that can be made in a reachable state.
C13_PrivaMedCall ==
    PrivaMedDeployed =>
        \A s \in Addr, c \in Cids :
            LET mayAdd == user(s).exists /\ user(s).role \in {"Patient", "Auditor"} IN
            ~ ENABLED (/\ addRecord(s, c)
                       /\ ~ (IF ~mayAdd
                             THEN result' # "ok" /\ records' = records
                             ELSE ~record(RecordIdOf(s, c, now)).exists
                                     => result' = "ok"))

C13_RegistryCall ==
    RegistryDeployed =>
        \A s \in Addr, id \in AcrRecordIds, c \in Cids, p \in Addr :
            LET mayAdd == /\ acr_user(s).exists
                          /\ acr_user(s).role \in {ROLE_PATIENT, ROLE_AUDITOR}
            IN
            ~ ENABLED (/\ acr_addRecord(s, id, c, p)
                       /\ ~ (IF ~mayAdd
                             THEN result' # "ok" /\ acr_records' = acr_records
                             ELSE (/\ acr_user(p).exists
                                   /\ acr_user(p).role = ROLE_PATIENT
                                   /\ acr_record(id).timestamp = 0)
                                     => result' = "ok"))

C13_RoleGatedAddRecord == C13_PrivaMedCall /\ C13_RegistryCall
\* C14 -- Only Delegate-class principals become grantees.  grantAccess(R, G,
\* ...) aborts unless G is registered with the provider role at the time of
\* the call (Provider in PrivaMed; PHYSICIAN or RESPONDER in
\* AccessControlRegistry), and no step creates or rewrites an active grant
\* for a principal that does not hold that role in the state the step starts
\* from.
C14_PrivaMedCall ==
    PrivaMedDeployed =>
        \A s \in Addr, R \in RecordArgs, G \in GranteeArgs,
           v \in ValidUntils, sc \in Scopes :
            ~(user(G).exists /\ user(G).role = "Provider") =>
                ~ ENABLED (/\ grantAccess(s, R, G, v, sc)
                           /\ ~ (result' # "ok" /\ grants' = grants))

C14_RegistryCall ==
    RegistryDeployed =>
        \A s \in Addr, G \in AcrGranteeArgs, R \in AcrRecordIds,
           v \in ValidUntils, sc \in Scopes :
            ~(/\ acr_user(G).exists
              /\ acr_user(G).role \in {ROLE_PHYSICIAN, ROLE_RESPONDER}) =>
                ~ ENABLED (/\ acr_grantAccess(s, G, R, v, sc)
                           /\ ~ (result' # "ok" /\ accessGrants' = accessGrants))

C14_GrantsMadeToProviders ==
    /\ \A k \in DOMAIN grants' :
          (grants'[k].active /\ Get(grants, k, NoGrant) # grants'[k]) =>
              (user(k[2]).exists /\ user(k[2]).role = "Provider")
    /\ \A k \in DOMAIN accessGrants' :
          Get(accessGrants, k, NoAcrGrant) # accessGrants'[k] =>
              /\ acr_user(accessGrants'[k].grantee).exists
              /\ acr_user(accessGrants'[k].grantee).role
                     \in {ROLE_PHYSICIAN, ROLE_RESPONDER}

C14_OnlyProvidersAreGrantees ==
    [] (C14_PrivaMedCall /\ C14_RegistryCall) /\ [][C14_GrantsMadeToProviders]_vars
\* C15 -- Expiry validation at grant time.  grantAccess(R, G, validUntil,
\* scope) with a non-zero validUntil <= now aborts and creates no grant, and
\* grantAccess with validUntil = 0 by the owner of an existing record to a
\* valid grantee succeeds.  Stated of every grantAccess call of either
\* contract that can be made in a reachable state.
C15_PrivaMedCall ==
    PrivaMedDeployed =>
        \A s \in Addr, R \in RecordArgs, G \in GranteeArgs,
           v \in ValidUntils, sc \in Scopes :
            ~ ENABLED (/\ grantAccess(s, R, G, v, sc)
                       /\ ~ (/\ (v # 0 /\ v <= now) =>
                                    (result' # "ok" /\ grants' = grants)
                             /\ (/\ v = 0
                                 /\ record(R).exists
                                 /\ s = record(R).owner
                                 /\ user(G).exists
                                 /\ user(G).role = "Provider") => result' = "ok"))

C15_RegistryCall ==
    RegistryDeployed =>
        \A s \in Addr, G \in AcrGranteeArgs, R \in AcrRecordIds,
           v \in ValidUntils, sc \in Scopes :
            ~ ENABLED (/\ acr_grantAccess(s, G, R, v, sc)
                       /\ ~ (/\ (v # 0 /\ v <= now) =>
                                    (result' # "ok" /\ accessGrants' = accessGrants)
                             /\ (/\ v = 0
                                 /\ acr_record(R).timestamp # 0
                                 /\ s = acr_record(R).owner
                                 /\ acr_user(G).exists
                                 /\ acr_user(G).role
                                        \in {ROLE_PHYSICIAN, ROLE_RESPONDER})
                                    => result' = "ok"))

C15_ExpiryValidated == C15_PrivaMedCall /\ C15_RegistryCall
\* C16 -- isAuthorized is a total read (PrivaMed).  For a record id that does
\* not exist isAuthorized(recordId, principal) returns false, it does not
\* abort; for an existing record it returns
\* active && (validUntil == 0 || now <= validUntil).
C16_IsAuthorizedTotal ==
    \A a \in Addr :
        /\ \A R \in {UnknownId} \cup {RecordIdOf(s, c, now) : s \in Addr, c \in Cids} :
              ~record(R).exists => isAuthorized(R, a) = "false"
        /\ \A R \in DOMAIN records :
              isAuthorized(R, a)
                  = BoolStr(/\ grant(R, a).active
                            /\ (grant(R, a).validUntil = 0
                                    \/ now <= grant(R, a).validUntil))
\* C17 -- Requests are an append-only indexed sequence (PrivaMed).  Each
\* successful requestAccess(R, reason) by p appends one request (p, R,
\* reason) at index = the request count before the call, emits that index,
\* and raises getRequestCount by exactly one; getRequestCount never
\* decreases; getRequest(i) for i below the count returns the same request
\* after every step; getRequest(i) with i >= count aborts with "invalid id".
C17_RequestAppends ==
    \A s \in Addr, R \in RecordArgs, rs \in Reasons, n \in {getRequestCount} :
        ~ ENABLED (/\ requestAccess(s, R, rs)
                   /\ result' = "ok"
                   /\ ~ (/\ getRequestCount' = n + 1
                         /\ getRequest(n)'
                                = [requester |-> s, recordId |-> R, reason |-> rs,
                                   createdAt |-> now, fulfilled |-> FALSE]
                         /\ logs' = <<AccessRequested(n, R, s, rs)>>))

C17_InvalidId ==
    \A i \in getRequestCount .. MaxRequests + 1 : getRequest(i) = "invalid id"

C17_RequestsKept ==
    /\ getRequestCount' >= getRequestCount
    /\ \A i \in 0 .. getRequestCount - 1 : getRequest(i)' = getRequest(i)
    /\ getRequestCount' # getRequestCount =>
           (result' = "ok" /\ Len(logs') = 1 /\ logs'[1].event = "AccessRequested")

C17_RequestsAppendOnly ==
    [] (C17_RequestAppends /\ C17_InvalidId) /\ [][C17_RequestsKept]_vars

\* the second request has just been appended, at index 1, by a requester or
\* in a block other than the first one's
C17_Witness ==
    /\ getRequestCount = 2
    /\ Len(logs) = 1
    /\ logs[1].event = "AccessRequested"
    /\ logs[1].requestId = 1
    /\ getRequest(0) # getRequest(1)
\* C18 -- Request creation is role-gated.  requestAccess aborts, appending
\* nothing, when the record does not exist, when the caller is unregistered,
\* or when the caller is registered with a role other than the provider role
\* (Provider in PrivaMed; PHYSICIAN or RESPONDER in AccessControlRegistry).
\* Stated of every requestAccess call of either contract that can be made in
\* a reachable state.
C18_PrivaMedCall ==
    PrivaMedDeployed =>
        \A s \in Addr, R \in RecordArgs, rs \in Reasons :
            ~(record(R).exists /\ user(s).exists /\ user(s).role = "Provider") =>
                ~ ENABLED (/\ requestAccess(s, R, rs)
                           /\ ~ (result' # "ok" /\ requests' = requests))

C18_RegistryCall ==
    RegistryDeployed =>
        \A s \in Addr, R \in AcrRecordIds, rs \in Reasons :
            ~(/\ acr_record(R).timestamp # 0
              /\ acr_user(s).exists
              /\ acr_user(s).role \in {ROLE_PHYSICIAN, ROLE_RESPONDER}) =>
                ~ ENABLED (/\ acr_requestAccess(s, R, rs)
                           /\ ~ (result' # "ok" /\ accessRequests' = accessRequests))

C18_RoleGatedRequest == C18_PrivaMedCall /\ C18_RegistryCall
\* C19 -- Approval implies a grant, atomically (AccessControlRegistry).  When
\* the owner of record R approves a pending request made by q for R, the call
\* succeeds and the same step marks the request processed and approved and
\* writes the grant for (R, q) with validUntil = now + 1 day and the default
\* scope, so hasAccess(q, R) is true right after it; and no step turns a
\* request approved without that grant being in the store after the step.
C19_ApproveGrants ==
    \A s \in Addr, id \in DOMAIN accessRequests :
      \A q \in {accessRequest(id).requester}, R \in {accessRequest(id).recordId} :
        (~accessRequest(id).processed /\ s = acr_record(R).owner) =>
            ~ ENABLED (/\ approveRequest(s, id)
                       /\ ~ (/\ result' = "ok"
                             /\ accessRequest(id)'.processed
                             /\ accessRequest(id)'.approved
                             /\ accessGrant(_grantKey(R, q))'
                                    = [exists |-> TRUE, granter |-> s, grantee |-> q,
                                       recordId |-> R, validUntil |-> now + OneDay,
                                       scope |-> DefaultScope]
                             /\ hasAccess(q, R)'))

C19_ApprovedWithGrant ==
    \A id \in DOMAIN accessRequests' :
        (accessRequests'[id].approved /\ ~accessRequest(id).approved) =>
            \E k \in DOMAIN accessGrants' :
                /\ k = _grantKey(accessRequests'[id].recordId, accessRequests'[id].requester)
                /\ accessGrants'[k].exists
                /\ accessGrants'[k].grantee = accessRequests'[id].requester
                /\ accessGrants'[k].recordId = accessRequests'[id].recordId
                /\ accessGrants'[k].validUntil = now + OneDay
                /\ accessGrants'[k].scope = DefaultScope

C19_ApprovalImpliesGrant == [] C19_ApproveGrants /\ [][C19_ApprovedWithGrant]_vars

\* the owner has just approved the request of another principal, who now has
\* access
C19_Witness ==
    /\ Len(logs) = 2
    /\ logs[2].event = "AccessRequestApproved"
    /\ logs[2].requestId \in DOMAIN accessRequests
    /\ LET r == accessRequest(logs[2].requestId) IN
          /\ r.approved
          /\ r.requester # acr_record(r.recordId).owner
          /\ hasAccess(r.requester, r.recordId)
\* C20 -- Only the record owner processes a request (AccessControlRegistry).
\* approveRequest(id) and denyRequest(id) by any caller other than the owner
\* of the request's record, the requester included, abort and leave every
\* request (so the request stays pending) and every grant unchanged.  Stated
\* of every such call that can be made in a reachable state.
C20_OnlyOwnerProcesses ==
    \A s \in Addr, id \in RequestArgs :
        s # acr_record(accessRequest(id).recordId).owner =>
            ~ ENABLED (/\ approveRequest(s, id) \/ denyRequest(s, id)
                       /\ ~ (/\ result' # "ok"
                             /\ accessRequests' = accessRequests
                             /\ accessGrants' = accessGrants))

\* a registered caller who does not own the record has just been refused
\* while a request of a registered requester is pending
C20_Witness ==
    /\ result = "Not owner"
    /\ \E id \in DOMAIN accessRequests :
          /\ ~accessRequests[id].processed
          /\ acr_user(accessRequests[id].requester).exists
          /\ accessRequests[id].requester # acr_record(accessRequests[id].recordId).owner
\* C21 -- Deny has no grant side effect (AccessControlRegistry).  A
\* successful denyRequest(id) marks the request processed and not approved,
\* emits the denial event and leaves the whole grant store unchanged: a grant
\* for (record, requester) that was there before the denial is there after
\* it with the same validUntil and scope.  Stated of every denyRequest call
\* that can be made in a reachable state.
C21_DenyKeepsGrants ==
    \A s \in Addr, id \in RequestArgs :
        ~ ENABLED (/\ denyRequest(s, id)
                   /\ result' = "ok"
                   /\ ~ (/\ accessRequest(id)'.processed
                         /\ ~accessRequest(id)'.approved
                         /\ accessGrants' = accessGrants
                         /\ logs' = <<AccessRequestDenied(id)>>))

\* the owner has just denied the request of a principal who holds a grant on
\* the record that is still in force
C21_Witness ==
    \E id \in RequestArgs :
        /\ result = "ok"
        /\ logs = <<AccessRequestDenied(id)>>
        /\ accessRequest(id).processed
        /\ ~accessRequest(id).approved
        /\ hasAccess(accessRequest(id).requester, accessRequest(id).recordId)
\* C22 -- Audit logging requires a registered caller.  logAccessEvent by an
\* unregistered caller aborts and appends (emits) nothing; by a registered
\* caller on an existing record it succeeds and appends exactly one event
\* with the supplied actor, success flag and action, whatever the success
\* flag and whether or not the actor was authorized.  Stated of every
\* logAccessEvent call of either contract that can be made in a reachable
\* state.
C22_PrivaMedCall ==
    PrivaMedDeployed =>
        \A s \in Addr, id \in RecordArgs, a \in LogActors, ok \in BOOLEAN, act \in Actions :
            ~ ENABLED (/\ logAccessEvent(s, id, a, ok, act)
                       /\ ~ (IF ~user(s).exists
                             THEN result' # "ok" /\ logs' = <<>>
                             ELSE record(id).exists =>
                                     /\ result' = "ok"
                                     /\ logs' = <<AccessEvent(id, a, ok, act, now)>>))

C22_RegistryCall ==
    RegistryDeployed =>
        \A s \in Addr, a \in LogActors, id \in AcrRecordIds, ok \in BOOLEAN, act \in Actions :
            ~ ENABLED (/\ acr_logAccessEvent(s, a, id, ok, act)
                       /\ ~ (IF ~acr_user(s).exists
                             THEN result' # "ok" /\ accessEvents' = accessEvents
                             ELSE acr_record(id).timestamp # 0 =>
                                     /\ result' = "ok"
                                     /\ accessEvents' =
                                           Put(accessEvents, id,
                                               Append(getAccessLog(id),
                                                      [actor |-> a, recordId |-> id,
                                                       success |-> ok, timestamp |-> now,
                                                       action |-> act]),
                                               <<>>)))

C22_LoggingNeedsRegisteredCaller == C22_PrivaMedCall /\ C22_RegistryCall
\* C23 -- PrivaMed.logAccessEvent is callable by anyone for an existing
\* record.  A call by any address, registered or not, on an existing record
\* succeeds, emits exactly one AccessEvent carrying the supplied recordId,
\* actor, success flag and action, and writes no storage; a call on a record
\* id that does not exist aborts with "Record not found".
C23_AnyoneLogs ==
    PrivaMedDeployed =>
        \A s \in Addr, id \in RecordArgs, a \in LogActors, ok \in BOOLEAN, act \in Actions :
            ~ ENABLED (/\ logAccessEvent(s, id, a, ok, act)
                       /\ ~ (IF record(id).exists
                             THEN /\ result' = "ok"
                                  /\ logs' = <<AccessEvent(id, a, ok, act, now)>>
                                  /\ pmStore' = pmStore
                             ELSE /\ result' = "Record not found"
                                  /\ logs' = <<>>
                                  /\ pmStore' = pmStore))

\* an access event was just emitted for an existing record although only
\* the record's owner is registered: unregistered callers can log too
C23_Witness ==
    /\ result = "ok"
    /\ Len(logs) = 1
    /\ logs[1].event = "AccessEvent"
    /\ record(logs[1].recordId).exists
    /\ ~user(logs[1].actor).exists
    /\ ENABLED (\E s \in Addr, id \in DOMAIN records :
                   /\ ~user(s).exists
                   /\ logAccessEvent(s, id, "bob", FALSE, "READ")
                   /\ result' = "ok")
\* a is an initial segment of b
IsPrefix(a, b) == Len(a) <= Len(b) /\ SubSeq(b, 1, Len(a)) = a

\* C24 -- The audit log is append-only (AccessControlRegistry).  For every
\* record the sequence returned by getAccessLog only grows: every step keeps
\* the events already there, unmodified and at the same position, and a step
\* that changes the sequence is a committed logAccessEvent call that puts
\* exactly its own event at the end; hence the events appear in the order in
\* which the calls committed, with timestamps that never decrease.
C24_Ordered ==
    \A id \in AcrRecordIds :
        \A i \in 1..Len(getAccessLog(id)), j \in 1..Len(getAccessLog(id)) :
            /\ getAccessLog(id)[i].recordId = id
            /\ getAccessLog(id)[i].timestamp <= now
            /\ i < j => getAccessLog(id)[i].timestamp <= getAccessLog(id)[j].timestamp

C24_Step ==
    \A id \in AcrRecordIds :
        /\ IsPrefix(getAccessLog(id), getAccessLog(id)')
        /\ getAccessLog(id)' # getAccessLog(id) =>
              /\ result' = "ok"
              /\ Len(logs') = 1
              /\ logs'[1].event = "AccessEventLogged"
              /\ logs'[1].recordId = id
              /\ getAccessLog(id)' =
                    Append(getAccessLog(id),
                           [actor |-> logs'[1].actor, recordId |-> id,
                            success |-> logs'[1].success, timestamp |-> now,
                            action |-> logs'[1].action])

C24_AppendOnly == [] C24_Ordered /\ [][C24_Step]_vars

\* two different events are stored for a record, in the order they were
\* logged, and an operation other than logAccessEvent has committed since
C24_Witness ==
    \E id \in AcrRecordIds :
        /\ Len(getAccessLog(id)) >= 2
        /\ getAccessLog(id)[1].success # getAccessLog(id)[2].success
        /\ getAccessLog(id)[1].timestamp < getAccessLog(id)[2].timestamp
        /\ result = "ok"
        /\ Len(logs) = 1
        /\ logs[1].event = "AccessRevoked"
\* C25 -- getLog on an unknown record fails (AccessControlRegistry).
\* getAccessLog(recordId) for a record id that was never created aborts with
\* the record-not-found error: the call returns no sequence of events, not
\* even the empty one.
C25_UnknownRecordAborts ==
    RegistryDeployed =>
        \A id \in AcrRecordIds :
            acr_record(id).timestamp = 0 =>
                getAccessLog(id) \notin Seq([actor : LogActors, recordId : AcrRecordIds,
                                             success : BOOLEAN, timestamp : 1..MaxTime,
                                             action : Actions])
\* C26 -- The content identifier is world-readable (PrivaMed).  getRecordCID
\* takes no account of the caller: for every existing record it returns the
\* cid that was passed to addRecord, in every reachable state -- whoever is
\* registered, whether grants on the record are active, revoked or expired
\* -- and for a record id that does not exist it aborts with "Record not
\* found".
C26_CidWorldReadable ==
    PrivaMedDeployed =>
        /\ \A id \in DOMAIN records : getRecordCID(id) = id[2]
        /\ getRecordCID(UnknownId) = "Record not found"
        /\ \A s \in Addr, c \in Cids : \A id \in {RecordIdOf(s, c, now)} :
              ~ ENABLED (/\ addRecord(s, c)
                         /\ result' = "ok"
                         /\ getRecordCID(id)' # c)

\* a record whose only grant was revoked and whose owner is the only
\* registered user: the cid is still returned
C26_Witness ==
    \E id \in DOMAIN records :
        /\ getRecordCID(id) = "QmA"
        /\ \A a \in Addr : ~grant(id, a).active
        /\ \E a \in Addr : <<id, a>> \in DOMAIN grants
        /\ \E a \in Addr : ~user(a).exists
        /\ result = "ok"
        /\ Len(logs) = 1
        /\ logs[1].event = "AccessRevoked"
\* the principal is the owner of the record, or isAuthorized answers true
GatewayAuthorized(principal, recordId) ==
    /\ recordId \in DOMAIN localRecords
    /\ LET meta == localRecords[recordId] IN
          \/ principal = meta.owner
          \/ principal = record(meta.recordIdHash).owner
          \/ isAuthorized(meta.recordIdHash, principal) = "true"

\* C27 -- The gateway releases decrypted content only to authorized
\* principals.  GET /api/records/:recordId answers with the decrypted payload
\* only to a principal who owns the record or for whom the on-chain
\* isAuthorized(recordIdHash, principal) is true; in particular a provider
\* whose grant was revoked is not answered.
C27_PlaintextOnlyIfAuthorized ==
    PrivaMedDeployed =>
        \A principal \in Addr, id \in GatewayIds :
            ~GatewayAuthorized(principal, id) =>
                ~ ENABLED (getRecord(id) /\ result' = "200")
\* C28 -- Revocation keeps the grant entry.  A successful revokeAccess(R, G)
\* changes only the active flag of the grant of (R, G), which becomes false:
\* the entry's validUntil and scope keep the values of the last grant, and no
\* other grant, record, user or request changes.  Stated of every
\* revokeAccess call of either contract that can be made in a reachable
\* state.
C28_PrivaMedCall ==
    PrivaMedDeployed =>
        \A s \in Addr, id \in RecordArgs, g \in GranteeArgs :
            \A old \in {grant(id, g)} :
                ~ ENABLED (/\ revokeAccess(s, id, g)
                           /\ result' = "ok"
                           /\ ~ (/\ grant(id, g)' = [old EXCEPT !.active = FALSE]
                                 /\ DOMAIN grants' = DOMAIN grants
                                 /\ \A k \in DOMAIN grants \ {<<id, g>>} :
                                       grants'[k] = grants[k]
                                 /\ users' = users
                                 /\ records' = records
                                 /\ requests' = requests))

C28_RegistryCall ==
    RegistryDeployed =>
        \A s \in Addr, g \in AcrGranteeArgs, id \in AcrRecordIds :
            \A old \in {accessGrant(_grantKey(id, g))} :
                ~ ENABLED (/\ acr_revokeAccess(s, g, id)
                           /\ result' = "ok"
                           /\ ~ (/\ accessGrant(_grantKey(id, g))' =
                                       [old EXCEPT !.exists = FALSE]
                                 /\ \A k \in DOMAIN accessGrants \ {_grantKey(id, g)} :
                                       /\ k \in DOMAIN accessGrants'
                                       /\ accessGrants'[k] = accessGrants[k]
                                 /\ acr_users' = acr_users
                                 /\ acr_records' = acr_records
                                 /\ accessRequests' = accessRequests))

C28_RevocationKeepsEntry == C28_PrivaMedCall /\ C28_RegistryCall
RecordAbort(sender, recordId, notOwner) ==
    IF ~record(recordId).exists THEN "Record not found"
    ELSE IF sender # record(recordId).owner THEN notOwner
    ELSE "none"

\* C30 -- Aborts name the failed precondition (PrivaMed).  grantAccess,
\* revokeAccess, requestAccess and emergencyAccess on a record id that does
\* not exist abort with "Record not found" whoever the caller is; on an
\* existing record a non-owner's grantAccess / revokeAccess aborts with
\* "Only owner can grant" / "Only owner can revoke"; and neither error is
\* ever reported in the other case.
C30_GrantAborts ==
    \A s \in Addr, id \in RecordArgs, g \in GranteeArgs, v \in ValidUntils, sc \in Scopes :
        \A why \in {RecordAbort(s, id, "Only owner can grant")} :
            ~ ENABLED (/\ grantAccess(s, id, g, v, sc)
                       /\ IF why = "none"
                          THEN result' \in {"Record not found", "Only owner can grant"}
                          ELSE result' # why)

C30_RevokeAborts ==
    \A s \in Addr, id \in RecordArgs, g \in GranteeArgs :
        \A why \in {RecordAbort(s, id, "Only owner can revoke")} :
            ~ ENABLED (/\ revokeAccess(s, id, g)
                       /\ IF why = "none"
                          THEN result' \in {"Record not found", "Only owner can revoke"}
                          ELSE result' # why)

C30_RequestAborts ==
    \A s \in Addr, id \in RecordArgs, rs \in Reasons :
        ~ ENABLED (/\ requestAccess(s, id, rs)
                   /\ ~ (result' = "Record not found" <=> ~record(id).exists))

C30_EmergencyAborts ==
    \A s \in Addr, id \in RecordArgs, j \in Justifications, d \in Durations :
        ~ ENABLED (/\ emergencyAccess(s, id, j, d)
                   /\ ~ (result' = "Record not found" <=> ~record(id).exists))

C30_AbortsNameThePrecondition ==
    PrivaMedDeployed =>
        /\ C30_GrantAborts
        /\ C30_RevokeAborts
        /\ C30_RequestAborts
        /\ C30_EmergencyAborts

\* a caller who does not own an existing record was just refused with the
\* not-owner error, and the same caller is refused with "Record not found"
\* on an unknown record id
C30_Witness ==
    /\ result = "Only owner can grant"
    /\ DOMAIN records # {}
    /\ \E s \in Addr :
          /\ ~user(s).exists
          /\ \A id \in DOMAIN records : s # record(id).owner
          /\ ENABLED (/\ revokeAccess(s, UnknownId, "bob")
                      /\ result' = "Record not found")
\* the step stores a new, active value in the grant slot k
MadeActive(k) ==
    /\ k \in DOMAIN grants'
    /\ grants'[k].active
    /\ grants'[k] # Get(grants, k, NoGrant)

\* C31 -- Consent invariant of PrivaMed.  The only steps that store an
\* active grant for a pair (R, G) are grantAccess(R, G, ...) called by the
\* owner of R and emergencyAccess(R, ...) called by G itself: no call by
\* anybody else, and no passing of time, makes G authorized on R.
\* isAuthorized(R, G) is true only for a pair whose stored grant is active,
\* hence never for a pair on which neither kind of step occurred.
C31_OtherCalls ==
    \A s \in Addr :
        ~ ENABLED (/\ \/ Tick
                      \/ \E a \in RegArgs : registerUser(s, a[1], a[2])
                      \/ \E c \in Cids : addRecord(s, c)
                      \/ \E id \in RecordArgs, g \in GranteeArgs : revokeAccess(s, id, g)
                      \/ \E id \in RecordArgs, rs \in Reasons : requestAccess(s, id, rs)
                      \/ \E id \in RecordArgs, a \in LogActors, ok \in BOOLEAN,
                            act \in Actions : logAccessEvent(s, id, a, ok, act)
                   /\ \/ \E k \in DOMAIN grants' : MadeActive(k)
                      \/ \E R \in DOMAIN records, G \in Addr :
                            /\ isAuthorized(R, G) # "true"
                            /\ isAuthorized(R, G)' = "true")

C31_GrantCalls ==
    \A s \in Addr, id \in RecordArgs, g \in GranteeArgs, v \in ValidUntils, sc \in Scopes :
        ~ ENABLED (/\ grantAccess(s, id, g, v, sc)
                   /\ \E k \in DOMAIN grants' :
                         MadeActive(k) /\ ~(k = <<id, g>> /\ s = record(id).owner))

C31_EmergencyCalls ==
    \A s \in Addr, id \in RecordArgs, j \in Justifications, d \in Durations :
        ~ ENABLED (/\ emergencyAccess(s, id, j, d)
                   /\ \E k \in DOMAIN grants' : MadeActive(k) /\ k # <<id, s>>)

C31_AuthorizedIsGranted ==
    \A R \in RecordArgs, G \in Addr :
        isAuthorized(R, G) = "true" =>
            <<R, G>> \in DOMAIN grants /\ grants[<<R, G>>].active

C31_Consent ==
    PrivaMedDeployed =>
        /\ C31_AuthorizedIsGranted
        /\ C31_OtherCalls
        /\ C31_GrantCalls
        /\ C31_EmergencyCalls

\* somebody who does not own the record was just refused as a granter, the
\* provider has no grant on the record and is not authorized
C31_Witness ==
    /\ result = "Only owner can grant"
    /\ \E R \in DOMAIN records :
          /\ user("bob").role = "Provider"
          /\ <<R, "bob">> \notin DOMAIN grants
          /\ isAuthorized(R, "bob") = "false"
\* C32 -- Emergency access replaces, never merges with, an existing
\* consensual grant (PrivaMed).  Whatever grant provider G holds on R -- in
\* particular an active owner grant without expiry, or one that expires
\* later than now + d -- after G's successful emergencyAccess(R, j, d) the
\* stored grant is active with validUntil = now + d and the zero scope; and
\* a stored grant with a nonzero validUntil that the clock has passed does
\* not authorize, so G is no longer authorized once the clock passes
\* now + d, until a new grant is stored.
C32_EmergencyOverwrites ==
    \A s \in Addr, id \in RecordArgs, j \in Justifications, d \in Durations :
        ~ ENABLED (/\ emergencyAccess(s, id, j, d)
                   /\ result' = "ok"
                   /\ ~ (/\ grant(id, s)' = [active |-> TRUE, validUntil |-> now + d,
                                              scope |-> ZeroScope]
                         /\ \A k \in DOMAIN grants \ {<<id, s>>} :
                               k \in DOMAIN grants' /\ grants'[k] = grants[k]))

C32_ExpiredIsUnauthorized ==
    \A k \in DOMAIN grants :
        (grants[k].validUntil # 0 /\ now > grants[k].validUntil) =>
            isAuthorized(k[1], k[2]) = "false"

C32_EmergencyReplaces ==
    PrivaMedDeployed => (C32_EmergencyOverwrites /\ C32_ExpiredIsUnauthorized)

\* the owner has just granted the provider access without expiry, and the
\* provider can take emergency access that ends before the clock's last value
C32_Witness ==
    \E k \in DOMAIN grants :
        /\ result = "ok"
        /\ logs = <<AccessGranted(k[1], k[2], 0, grants[k].scope)>>
        /\ grants[k] = [active |-> TRUE, validUntil |-> 0, scope |-> grants[k].scope]
        /\ grants[k].scope # ZeroScope
        /\ isAuthorized(k[1], k[2]) = "true"
        /\ ENABLED (/\ emergencyAccess(k[2], k[1], "j1", 1)
                    /\ result' = "ok"
                    /\ grant(k[1], k[2])'.validUntil < MaxTime)
\* C33 -- Processing needs a real request (AccessControlRegistry).
\* approveRequest(id) and denyRequest(id) for an id that no requestAccess
\* call produced abort for every caller and every reachable record store,
\* and change neither the requests nor the grants.
C33_NeedsRealRequest ==
    RegistryDeployed =>
        \A s \in Addr, id \in RequestArgs :
            id \notin DOMAIN accessRequests =>
                ~ ENABLED (/\ approveRequest(s, id) \/ denyRequest(s, id)
                           /\ ~ (/\ result' # "ok"
                                 /\ accessRequests' = accessRequests
                                 /\ accessGrants' = accessGrants))
\* C34 -- Gateway local/on-chain consistency under concurrency.  For any
\* interleaving of POST /api/records handlers, every localRecords entry with
\* a non-null recordIdHash names an on-chain record whose cid equals the
\* entry's own cid.
C34_LocalMatchesChain ==
    \A id \in DOMAIN localRecords :
        localRecords[id].recordIdHash # NoHash =>
            /\ record(localRecords[id].recordIdHash).exists
            /\ record(localRecords[id].recordIdHash).cid = localRecords[id].cid
\* C35 -- In PrivaMed a request never leaves Pending.  Every stored request
\* has fulfilled = false; every step keeps the requests already stored,
\* unmodified and at the same index; and a requestAccess call changes no
\* grant and makes nobody authorized, so requesting alone never authorizes
\* the requester.
C35_AllPending ==
    \A i \in DOMAIN requests : ~requests[i].fulfilled

C35_RequestGrantsNothing ==
    \A s \in Addr, id \in RecordArgs, rs \in Reasons :
        ~ ENABLED (/\ requestAccess(s, id, rs)
                   /\ \/ grants' # grants
                      \/ \E R \in DOMAIN records, G \in Addr :
                            /\ isAuthorized(R, G) # "true"
                            /\ isAuthorized(R, G)' = "true")

C35_RequestsUntouched == IsPrefix(requests, requests')

C35_NeverLeavesPending ==
    /\ [] (PrivaMedDeployed => (C35_AllPending /\ C35_RequestGrantsNothing))
    /\ [][C35_RequestsUntouched]_vars

\* the owner has just granted the record to a provider who had requested it:
\* the provider is authorized and the request is still not fulfilled
C35_Witness ==
    \E i \in DOMAIN requests :
        /\ result = "ok"
        /\ logs = <<AccessGranted(requests[i].recordId, requests[i].requester,
                                  MaxTime - 1, "NOTES")>>
        /\ isAuthorized(requests[i].recordId, requests[i].requester) = "true"
        /\ ~requests[i].fulfilled
\* C36 -- Provider record listing reflects on-chain authorization at query
\* time.  GET /api/providers/:providerAddress/records answers 200 with
\* exactly the localRecords entries that have a non-null recordIdHash and
\* for which isAuthorized(recordIdHash, providerAddress) is true when the
\* request is served: entries without an on-chain id are skipped, and an
\* entry whose grant is revoked or has expired is absent.
C36_ListingIsAuthorized ==
    PrivaMedDeployed =>
        \A p \in Addr :
            ~ ENABLED (/\ listProviderRecords(p)
                       /\ ~ (/\ result' = "200"
                             /\ Len(logs') = 1
                             /\ logs'[1].records =
                                   {[recordId |-> id, cid |-> localRecords[id].cid,
                                     recordIdHash |-> localRecords[id].recordIdHash,
                                     owner |-> localRecords[id].owner] :
                                    id \in {x \in DOMAIN localRecords :
                                              /\ localRecords[x].recordIdHash # NoHash
                                              /\ isAuthorized(localRecords[x].recordIdHash, p)
                                                    = "true"}}))

\* a listing was just served that is empty although the gateway holds a
\* record with an on-chain id: the provider's grant on it is revoked, and an
\* entry without on-chain id is held as well
C36_Witness ==
    /\ result = "200"
    /\ logs = <<[records |-> {}]>>
    /\ \E id \in DOMAIN localRecords : localRecords[id].recordIdHash = NoHash
    /\ \E id \in DOMAIN localRecords :
          /\ localRecords[id].recordIdHash # NoHash
          /\ <<localRecords[id].recordIdHash, "bob">> \in DOMAIN grants
          /\ ~grant(localRecords[id].recordIdHash, "bob").active
          /\ ENABLED (listProviderRecords("bob") /\ logs'[1].records = {})
====
